---------------------------- MODULE Spec2Model ----------------------------
(***************************************************************************)
(* The Rush App backend-for-frontend: the relational schema of the SQL     *)
(* migrations (tables, NOT NULL / CHECK / UNIQUE / FOREIGN KEY             *)
(* constraints, ON DELETE actions, row level security policies), the       *)
(* submitBallot service of the project guidelines and the health route.    *)
(*                                                                         *)
(* A table is a set of rows (records).  A statement is run by a session:   *)
(* the service role (the Prisma connection of DATABASE_URL, which owns the *)
(* tables and bypasses row level security) or an authenticated Supabase    *)
(* user, for whom auth.uid() is the id of the JWT.  Every statement is one *)
(* atomic step; its outcome (the SQLSTATE class) is kept in last.          *)
(*                                                                         *)
(* A nullable column holds NULL (the empty tuple) or Val(v).               *)
(***************************************************************************)
EXTENDS Integers, Sequences, FiniteSets, TLC

VARIABLES
    users,          \* table users
    events,         \* table events
    attendance,     \* table attendance
    votes,          \* table votes
    feedback,       \* table feedback
    interviews,     \* table interviews
    dues_payments,  \* table dues_payments
    now,            \* the value of now(): the database clock
    schema,         \* the tables, functions and added columns that exist
    calls,          \* submitBallot invocations in flight: call id -> frame
    last            \* the last statement or call: [op, sess, result]

tables == <<users, events, attendance, votes, feedback, interviews, dues_payments>>
vars == <<users, events, attendance, votes, feedback, interviews, dues_payments, now,
          schema, calls, last>>

---------------------------------------------------------------------------
(* Bounds of the model *)

MaxUsers == 4
MaxEvents == 1
MaxVotes == 2
MaxRows == 2
MaxCalls == 2
MaxNow == 2

---------------------------------------------------------------------------
(* SQL values *)

NULL == <<>>
Val(x) == <<x>>
IsNull(x) == x = NULL
Get(x) == x[1]

\* a = b in a WHERE clause, a policy or a unique index: a comparison with
\* NULL is unknown, which selects nothing and conflicts with nothing
SqlEq(a, b) == ~IsNull(a) /\ ~IsNull(b) /\ a = b

\* gen_random_uuid(): an id no row of the table holds
Ids(table) == {r.id : r \in table}
NewId(table, max) == CHOOSE i \in 1..max : i \notin Ids(table) /\ \A j \in 1..(i-1) : j \in Ids(table)
HasRoom(table, max) == \E i \in 1..max : i \notin Ids(table)
RowById(table, id) == CHOOSE r \in table : r.id = id

\* REFERENCES t(id): NULL, or the id of a row of t
FkOk(ref, table) == IsNull(ref) \/ Get(ref) \in Ids(table)

---------------------------------------------------------------------------
(* Sessions *)

ServiceRole == [role |-> "service_role", uid |-> 0]
Authenticated(uid) == [role |-> "authenticated", uid |-> uid]
BypassRls(sess) == sess.role = "service_role"

Roles == {"ADMIN", "ACTIVE", "PLEDGE", "RUSHEE"}
VoteTypes == {"BID", "NO_BID", "ABSTAIN"}

---------------------------------------------------------------------------
(* users: row level security is enabled and no policy is created, so for  *)
(* a session that does not bypass it every command is denied on every row *)

\* a policy that lets a session see and write its own row:
\* USING (supabase_id = auth.uid())
UsersPolicyOwn(uid, row) == SqlEq(row.supabase_id, Val(uid))

UsersPolicy(uid, row) == FALSE

\* the rows of users a sub-select of a policy ranges over: the policy's
\* query runs with the privileges of the session
UsersVisibleTo(sess) ==
    IF BypassRls(sess) THEN users ELSE {u \in users : UsersPolicy(sess.uid, u)}

\* SELECT id FROM users WHERE supabase_id = auth.uid()
OwnIds(uid, vis) == {u.id : u \in {v \in vis : SqlEq(v.supabase_id, Val(uid))}}

\* EXISTS (SELECT 1 FROM users WHERE supabase_id = auth.uid() AND role = 'ADMIN' AND is_active = true)
IsActiveAdmin(uid, vis) ==
    \E u \in vis : SqlEq(u.supabase_id, Val(uid)) /\ u.role = "ADMIN" /\ u.is_active

---------------------------------------------------------------------------
(* votes: columns id, event_id, voter_id, candidate_id, vote_type,        *)
(* vote_value, is_anonymous, voting_round (notes is free text under no    *)
(* constraint and no policy, and is left out)                             *)

\* voter_id UUID NOT NULL, candidate_id UUID NOT NULL
VotesNotNull(r) == ~IsNull(r.voter_id) /\ ~IsNull(r.candidate_id)

\* CHECK (vote_value >= 1 AND vote_value <= 10): a CHECK passes unless it is false
VoteValueCheck(v) == IsNull(v) \/ (Get(v) >= 1 /\ Get(v) <= 10)

\* CHECK (vote_type IN ('BID', 'NO_BID', 'ABSTAIN'))
VoteTypeCheck(t) == t \in VoteTypes

\* UNIQUE(voter_id, candidate_id, voting_round): two rows conflict when all
\* three columns are equal, and NULLs are not equal
VotesConflict(a, b) ==
    /\ SqlEq(a.voter_id, b.voter_id)
    /\ SqlEq(a.candidate_id, b.candidate_id)
    /\ SqlEq(a.voting_round, b.voting_round)

VotesUnique(r, table) == \A o \in table : o.id # r.id => ~VotesConflict(o, r)

VotesFk(r) == FkOk(r.event_id, events) /\ FkOk(r.voter_id, users) /\ FkOk(r.candidate_id, users)

\* the constraint a new or updated row breaks, in the order they are enforced
VotesViolation(r, table) ==
    IF ~VotesNotNull(r) THEN "not_null_violation"
    ELSE IF ~(VoteTypeCheck(r.vote_type) /\ VoteValueCheck(r.vote_value)) THEN "check_violation"
    ELSE IF ~VotesUnique(r, table) THEN "unique_violation"
    ELSE IF ~VotesFk(r) THEN "foreign_key_violation"
    ELSE "ok"

\* a policy that also shows every ballot that is not anonymous
VotesSelectOwnPublic(uid, vis, r) ==
    \/ ~r.is_anonymous
    \/ ~IsNull(r.voter_id) /\ Get(r.voter_id) \in OwnIds(uid, vis)

\* POLICY "Users can view own votes" FOR SELECT
VotesSelectOwn(uid, vis, r) == ~IsNull(r.voter_id) /\ Get(r.voter_id) \in OwnIds(uid, vis)

\* POLICY "Admins can view all votes" FOR SELECT
VotesSelectAdmin(uid, vis, r) == IsActiveAdmin(uid, vis)

\* the SELECT policies of a table are permissive: a row passes if one of them does
VotesSelectUsing(uid, vis, r) == VotesSelectOwn(uid, vis, r) \/ VotesSelectAdmin(uid, vis, r)

\* POLICY "Active members can create votes" FOR INSERT WITH CHECK
VotesInsertCheck(uid, vis, r) ==
    /\ ~IsNull(r.voter_id)
    /\ Get(r.voter_id) \in {u.id : u \in {v \in vis : /\ SqlEq(v.supabase_id, Val(uid))
                                                       /\ v.role \in {"ACTIVE", "ADMIN"}
                                                       /\ v.is_active}}

\* an UPDATE policy that admits every signed-up user on every vote:
\* USING (EXISTS (SELECT 1 FROM users WHERE supabase_id = auth.uid()))
VotesUpdateAny(uid, vis, r) == \E u \in vis : SqlEq(u.supabase_id, Val(uid))

\* POLICY "Users can update own votes" FOR UPDATE USING; with no WITH CHECK
\* the USING expression is also the check of the updated row
VotesUpdateUsing(uid, vis, r) == ~IsNull(r.voter_id) /\ Get(r.voter_id) \in OwnIds(uid, vis)

\* a DELETE policy for admins: USING (EXISTS (... role = 'ADMIN' AND is_active = true))
VotesDeleteAdmin(uid, vis, r) == IsActiveAdmin(uid, vis)

\* votes has no DELETE policy
VotesDeleteUsing(uid, vis, r) == FALSE

\* SELECT * FROM votes, as the session sees it
VotesReadable(sess) ==
    IF BypassRls(sess) THEN votes
    ELSE {r \in votes : VotesSelectUsing(sess.uid, UsersVisibleTo(sess), r)}

\* SET col = value, ...: the row with the named columns replaced
Patch(old, set) == [c \in DOMAIN old |-> IF c \in DOMAIN set THEN set[c] ELSE old[c]]

\* a table whose trigger is not attached: the row is stored as written
KeepUpdatedAt(new_row) == new_row

\* TRIGGER update_<table>_updated_at BEFORE UPDATE FOR EACH ROW:
\* NEW.updated_at = now(); RETURN NEW
update_updated_at_column(new_row) == [new_row EXCEPT !.updated_at = now]

Done(op, sess, result) == last' = [op |-> op, sess |-> sess, result |-> result]

\* the outcome of inserting row: the INSERT policy's check, then the constraints
VotesInsertResult(sess, row) ==
    IF ~BypassRls(sess) /\ ~VotesInsertCheck(sess.uid, UsersVisibleTo(sess), row)
    THEN "insufficient_privilege"
    ELSE VotesViolation(row, votes)

\* INSERT INTO votes (...) VALUES (...)
InsertVotes(sess, new) ==
    /\ HasRoom(votes, MaxVotes)
    /\ LET row == [id |-> NewId(votes, MaxVotes)] @@ new @@ [updated_at |-> now]
           res == VotesInsertResult(sess, row)
       IN /\ votes' = IF res = "ok" THEN votes \cup {row} ELSE votes
          /\ Done("insert_votes", sess, res)
    /\ UNCHANGED <<users, events, attendance, feedback, interviews, calls, dues_payments, now, schema>>

\* UPDATE votes SET ... WHERE id = id
UpdateVotes(sess, id, set) ==
    /\ LET vis == UsersVisibleTo(sess)
           hit == {r \in votes : /\ r.id = id
                                 /\ \/ BypassRls(sess)
                                    \/ /\ VotesUpdateUsing(sess.uid, vis, r)
                                       /\ VotesSelectUsing(sess.uid, vis, r)}
       IN IF hit = {}
          THEN /\ votes' = votes
               /\ Done("update_votes", sess, "no_rows")
          ELSE LET old == CHOOSE r \in hit : TRUE
                   row == update_updated_at_column(Patch(old, set))
                   res == IF ~BypassRls(sess) /\ ~VotesUpdateUsing(sess.uid, vis, row)
                          THEN "insufficient_privilege"
                          ELSE VotesViolation(row, votes)
               IN /\ votes' = IF res = "ok" THEN (votes \ {old}) \cup {row} ELSE votes
                  /\ Done("update_votes", sess, res)
    /\ UNCHANGED <<users, events, attendance, feedback, interviews, calls, dues_payments, now, schema>>

\* DELETE FROM votes WHERE id = id
DeleteVotes(sess, id) ==
    /\ LET vis == UsersVisibleTo(sess)
           hit == {r \in votes : /\ r.id = id
                                 /\ \/ BypassRls(sess)
                                    \/ VotesDeleteUsing(sess.uid, vis, r)}
       IN /\ votes' = votes \ hit
          /\ Done("delete_votes", sess, IF hit = {} THEN "no_rows" ELSE "ok")
    /\ UNCHANGED <<users, events, attendance, feedback, interviews, calls, dues_payments, now, schema>>

---------------------------------------------------------------------------
(* users: columns id, supabase_id, email, role, is_active,                *)
(* candidate_stage (added by migration 008)                               *)

CandidateStages == {"INITIAL", "FIRST_ROUND", "SECOND_ROUND", "THIRD_ROUND", "BID_EXTENDED",
                    "BID_ACCEPTED", "BID_DECLINED", "NO_BID", "DROPPED"}

\* the rows of auth.users, which Supabase Auth owns
AuthUsers == 1..(MaxUsers + 1)

\* supabase_id UUID UNIQUE NOT NULL, email TEXT UNIQUE NOT NULL
UsersNotNull(r) == ~IsNull(r.supabase_id) /\ ~IsNull(r.email)

\* CHECK (role IN (...)), CHECK (candidate_stage IN (...))
UsersCheck(r) ==
    /\ r.role \in Roles
    /\ IsNull(r.candidate_stage) \/ Get(r.candidate_stage) \in CandidateStages

\* supabase_id UUID UNIQUE
UsersSupabaseIdUnique(r, table) == \A o \in table : o.id # r.id => ~SqlEq(o.supabase_id, r.supabase_id)

\* email TEXT, declared without UNIQUE
UsersEmailAny(r, table) == TRUE

\* email TEXT UNIQUE
UsersEmailUnique(r, table) == \A o \in table : o.id # r.id => ~SqlEq(o.email, r.email)

\* supabase_id REFERENCES auth.users(id)
UsersFk(r) == IsNull(r.supabase_id) \/ Get(r.supabase_id) \in AuthUsers

UsersViolation(r, table) ==
    IF ~UsersNotNull(r) THEN "not_null_violation"
    ELSE IF ~UsersCheck(r) THEN "check_violation"
    ELSE IF ~(UsersSupabaseIdUnique(r, table) /\ UsersEmailUnique(r, table)) THEN "unique_violation"
    ELSE IF ~UsersFk(r) THEN "foreign_key_violation"
    ELSE "ok"

\* role TEXT NOT NULL DEFAULT 'RUSHEE', is_active BOOLEAN DEFAULT true;
\* candidate_stage is added without a DEFAULT, so it defaults to NULL
UsersDefaults == [role |-> "RUSHEE", is_active |-> TRUE, candidate_stage |-> NULL]

\* the row of an INSERT that names only the columns of new
WithUsersDefaults(new) == new @@ UsersDefaults

\* INSERT INTO users (...) VALUES (...)
InsertUsers(sess, new) ==
    /\ HasRoom(users, MaxUsers)
    /\ LET row == [id |-> NewId(users, MaxUsers)] @@ new @@ [updated_at |-> now]
           res == IF ~BypassRls(sess) /\ ~UsersPolicy(sess.uid, row)
                  THEN "insufficient_privilege"
                  ELSE UsersViolation(row, users)
       IN /\ users' = IF res = "ok" THEN users \cup {row} ELSE users
          /\ Done("insert_users", sess, res)
    /\ UNCHANGED <<events, attendance, votes, feedback, interviews, calls, dues_payments, now, schema>>

\* a deactivation carried out as a hard delete
UpdateUsersByDelete(sess, id, set) ==
    /\ users' = {u \in users : u.id # id}
    /\ Done("update_users", sess, "ok")
    /\ UNCHANGED <<events, attendance, votes, feedback, interviews, calls, dues_payments, now, schema>>

\* UPDATE users SET ... WHERE id = id
UpdateUsers(sess, id, set) ==
    /\ LET hit == {u \in users : u.id = id /\ (BypassRls(sess) \/ UsersPolicy(sess.uid, u))}
       IN IF hit = {}
          THEN /\ users' = users
               /\ Done("update_users", sess, "no_rows")
          ELSE LET old == CHOOSE u \in hit : TRUE
                   row == update_updated_at_column(Patch(old, set))
                   res == IF ~BypassRls(sess) /\ ~UsersPolicy(sess.uid, row)
                          THEN "insufficient_privilege"
                          ELSE UsersViolation(row, users)
               IN /\ users' = IF res = "ok" THEN (users \ {old}) \cup {row} ELSE users
                  /\ Done("update_users", sess, res)
    /\ UNCHANGED <<events, attendance, votes, feedback, interviews, calls, dues_payments, now, schema>>

---------------------------------------------------------------------------
(* attendance: columns id, event_id, user_id, rsvp_status, status,        *)
(* checked_in_at, checked_in_by                                           *)

AttendanceStatuses == {"PENDING", "PRESENT", "ABSENT", "EXCUSED", "LATE"}
RsvpStatuses == {"GOING", "MAYBE", "NOT_GOING"}

\* event_id UUID NOT NULL, user_id UUID NOT NULL
AttendanceNotNull(r) == ~IsNull(r.event_id) /\ ~IsNull(r.user_id)

\* CHECK (rsvp_status IN (...)), CHECK (status IN (...))
AttendanceCheck(r) ==
    /\ IsNull(r.rsvp_status) \/ Get(r.rsvp_status) \in RsvpStatuses
    /\ r.status \in AttendanceStatuses

\* a unique key that also takes in the status: UNIQUE(event_id, user_id, status)
AttendanceConflictBoth(a, b) ==
    /\ SqlEq(a.event_id, b.event_id)
    /\ SqlEq(a.user_id, b.user_id)
    /\ a.status = b.status

\* UNIQUE(event_id, user_id)
AttendanceConflict(a, b) == SqlEq(a.event_id, b.event_id) /\ SqlEq(a.user_id, b.user_id)
AttendanceUnique(r, table) == \A o \in table : o.id # r.id => ~AttendanceConflict(o, r)

AttendanceFk(r) ==
    FkOk(r.event_id, events) /\ FkOk(r.user_id, users) /\ FkOk(r.checked_in_by, users)

AttendanceViolation(r, table) ==
    IF ~AttendanceNotNull(r) THEN "not_null_violation"
    ELSE IF ~AttendanceCheck(r) THEN "check_violation"
    ELSE IF ~AttendanceUnique(r, table) THEN "unique_violation"
    ELSE IF ~AttendanceFk(r) THEN "foreign_key_violation"
    ELSE "ok"

\* POLICY "Users can view own attendance" FOR SELECT
AttendanceSelectOwn(uid, vis, r) == ~IsNull(r.user_id) /\ Get(r.user_id) \in OwnIds(uid, vis)

\* POLICY "Admins can view all attendance" FOR SELECT
AttendanceSelectAdmin(uid, vis, r) == IsActiveAdmin(uid, vis)

\* POLICY "Admins can manage attendance" FOR ALL USING: it governs SELECT,
\* INSERT, UPDATE and DELETE, and is also the check of a new row
AttendanceManageUsing(uid, vis, r) == IsActiveAdmin(uid, vis)

AttendanceSelectUsing(uid, vis, r) ==
    \/ AttendanceSelectOwn(uid, vis, r)
    \/ AttendanceSelectAdmin(uid, vis, r)
    \/ AttendanceManageUsing(uid, vis, r)

\* SELECT * FROM attendance, as the session sees it
AttendanceReadable(sess) ==
    IF BypassRls(sess) THEN attendance
    ELSE {r \in attendance : AttendanceSelectUsing(sess.uid, UsersVisibleTo(sess), r)}

AttendanceInsertResult(sess, row) ==
    IF ~BypassRls(sess) /\ ~AttendanceManageUsing(sess.uid, UsersVisibleTo(sess), row)
    THEN "insufficient_privilege"
    ELSE AttendanceViolation(row, attendance)

\* INSERT INTO attendance (...) VALUES (...)
InsertAttendance(sess, new) ==
    /\ HasRoom(attendance, MaxRows)
    /\ LET row == [id |-> NewId(attendance, MaxRows)] @@ new @@ [updated_at |-> now]
           res == AttendanceInsertResult(sess, row)
       IN /\ attendance' = IF res = "ok" THEN attendance \cup {row} ELSE attendance
          /\ Done("insert_attendance", sess, res)
    /\ UNCHANGED <<users, events, votes, feedback, interviews, calls, dues_payments, now, schema>>

\* UPDATE attendance SET ... WHERE id = id
UpdateAttendance(sess, id, set) ==
    /\ LET vis == UsersVisibleTo(sess)
           hit == {r \in attendance : /\ r.id = id
                                      /\ \/ BypassRls(sess)
                                         \/ /\ AttendanceManageUsing(sess.uid, vis, r)
                                            /\ AttendanceSelectUsing(sess.uid, vis, r)}
       IN IF hit = {}
          THEN /\ attendance' = attendance
               /\ Done("update_attendance", sess, "no_rows")
          ELSE LET old == CHOOSE r \in hit : TRUE
                   row == update_updated_at_column(Patch(old, set))
                   res == IF ~BypassRls(sess) /\ ~AttendanceManageUsing(sess.uid, vis, row)
                          THEN "insufficient_privilege"
                          ELSE AttendanceViolation(row, attendance)
               IN /\ attendance' = IF res = "ok" THEN (attendance \ {old}) \cup {row}
                                   ELSE attendance
                  /\ Done("update_attendance", sess, res)
    /\ UNCHANGED <<users, events, votes, feedback, interviews, calls, dues_payments, now, schema>>

\* DELETE FROM attendance WHERE id = id
DeleteAttendance(sess, id) ==
    /\ LET vis == UsersVisibleTo(sess)
           hit == {r \in attendance : /\ r.id = id
                                      /\ \/ BypassRls(sess)
                                         \/ AttendanceManageUsing(sess.uid, vis, r)}
       IN /\ attendance' = attendance \ hit
          /\ Done("delete_attendance", sess, IF hit = {} THEN "no_rows" ELSE "ok")
    /\ UNCHANGED <<users, events, votes, feedback, interviews, calls, dues_payments, now, schema>>

---------------------------------------------------------------------------
(* feedback: columns id, event_id, author_id, candidate_id, rating,       *)
(* is_anonymous, is_private                                               *)

\* author_id UUID NOT NULL, candidate_id UUID NOT NULL
FeedbackNotNull(r) == ~IsNull(r.author_id) /\ ~IsNull(r.candidate_id)

\* a CHECK on the scale of vote_value: rating >= 1 AND rating <= 10
RatingCheckWide(v) == IsNull(v) \/ (Get(v) >= 1 /\ Get(v) <= 10)

\* CHECK (rating >= 1 AND rating <= 5)
RatingCheck(v) == IsNull(v) \/ (Get(v) >= 1 /\ Get(v) <= 5)

FeedbackFk(r) == FkOk(r.event_id, events) /\ FkOk(r.author_id, users) /\ FkOk(r.candidate_id, users)

FeedbackViolation(r) ==
    IF ~FeedbackNotNull(r) THEN "not_null_violation"
    ELSE IF ~RatingCheck(r.rating) THEN "check_violation"
    ELSE IF ~FeedbackFk(r) THEN "foreign_key_violation"
    ELSE "ok"

\* EXISTS (SELECT 1 FROM users WHERE supabase_id = auth.uid() AND role IN ('ACTIVE', 'ADMIN') AND is_active = true)
IsActiveMember(uid, vis) ==
    \E u \in vis : SqlEq(u.supabase_id, Val(uid)) /\ u.role \in {"ACTIVE", "ADMIN"} /\ u.is_active

\* POLICY "Authors can view own feedback" FOR SELECT
FeedbackSelectOwn(uid, vis, r) == ~IsNull(r.author_id) /\ Get(r.author_id) \in OwnIds(uid, vis)

\* POLICY "Admins can view all feedback" FOR SELECT
FeedbackSelectAdmin(uid, vis, r) == IsActiveAdmin(uid, vis)

\* POLICY "Active members can view public feedback" FOR SELECT
FeedbackSelectPublic(uid, vis, r) == ~r.is_private /\ IsActiveMember(uid, vis)

FeedbackSelectUsing(uid, vis, r) ==
    \/ FeedbackSelectOwn(uid, vis, r)
    \/ FeedbackSelectAdmin(uid, vis, r)
    \/ FeedbackSelectPublic(uid, vis, r)

\* POLICY "Active members can create feedback" FOR INSERT WITH CHECK
FeedbackInsertCheck(uid, vis, r) ==
    /\ ~IsNull(r.author_id)
    /\ Get(r.author_id) \in {u.id : u \in {v \in vis : /\ SqlEq(v.supabase_id, Val(uid))
                                                        /\ v.role \in {"ACTIVE", "PLEDGE", "ADMIN"}
                                                        /\ v.is_active}}

\* POLICY "Authors can update own feedback" FOR UPDATE USING
FeedbackUpdateUsing(uid, vis, r) == ~IsNull(r.author_id) /\ Get(r.author_id) \in OwnIds(uid, vis)

\* SELECT * FROM feedback, as the session sees it
FeedbackReadable(sess) ==
    IF BypassRls(sess) THEN feedback
    ELSE {r \in feedback : FeedbackSelectUsing(sess.uid, UsersVisibleTo(sess), r)}

\* INSERT INTO feedback (...) VALUES (...)
InsertFeedback(sess, new) ==
    /\ HasRoom(feedback, MaxRows)
    /\ LET row == [id |-> NewId(feedback, MaxRows)] @@ new @@ [updated_at |-> now]
           res == IF ~BypassRls(sess) /\ ~FeedbackInsertCheck(sess.uid, UsersVisibleTo(sess), row)
                  THEN "insufficient_privilege"
                  ELSE FeedbackViolation(row)
       IN /\ feedback' = IF res = "ok" THEN feedback \cup {row} ELSE feedback
          /\ Done("insert_feedback", sess, res)
    /\ UNCHANGED <<users, events, attendance, votes, interviews, calls, dues_payments, now, schema>>

\* UPDATE feedback SET ... WHERE id = id
UpdateFeedback(sess, id, set) ==
    /\ LET vis == UsersVisibleTo(sess)
           hit == {r \in feedback : /\ r.id = id
                                    /\ \/ BypassRls(sess)
                                       \/ /\ FeedbackUpdateUsing(sess.uid, vis, r)
                                          /\ FeedbackSelectUsing(sess.uid, vis, r)}
       IN IF hit = {}
          THEN /\ feedback' = feedback
               /\ Done("update_feedback", sess, "no_rows")
          ELSE LET old == CHOOSE r \in hit : TRUE
                   row == update_updated_at_column(Patch(old, set))
                   res == IF ~BypassRls(sess) /\ ~FeedbackUpdateUsing(sess.uid, vis, row)
                          THEN "insufficient_privilege"
                          ELSE FeedbackViolation(row)
               IN /\ feedback' = IF res = "ok" THEN (feedback \ {old}) \cup {row} ELSE feedback
                  /\ Done("update_feedback", sess, res)
    /\ UNCHANGED <<users, events, attendance, votes, interviews, calls, dues_payments, now, schema>>

\* feedback has no DELETE policy
FeedbackDeleteUsing(uid, vis, r) == FALSE

\* DELETE FROM feedback WHERE id = id
DeleteFeedback(sess, id) ==
    /\ LET vis == UsersVisibleTo(sess)
           hit == {r \in feedback : /\ r.id = id
                                    /\ \/ BypassRls(sess)
                                       \/ FeedbackDeleteUsing(sess.uid, vis, r)}
       IN /\ feedback' = feedback \ hit
          /\ Done("delete_feedback", sess, IF hit = {} THEN "no_rows" ELSE "ok")
    /\ UNCHANGED <<users, events, attendance, votes, interviews, calls, dues_payments, now, schema>>

---------------------------------------------------------------------------
(* interviews: columns id, event_id, interviewer_id, candidate_id,        *)
(* overall_rating, recommendation, is_complete                            *)

Recommendations == {"STRONG_BID", "BID", "NEUTRAL", "NO_BID", "STRONG_NO_BID"}

\* interviewer_id UUID NOT NULL, candidate_id UUID NOT NULL
InterviewsNotNull(r) == ~IsNull(r.interviewer_id) /\ ~IsNull(r.candidate_id)

\* CHECK (overall_rating >= 1 AND overall_rating <= 5)
OverallRatingCheck(v) == IsNull(v) \/ (Get(v) >= 1 /\ Get(v) <= 5)

\* CHECK (recommendation IN (...))
RecommendationCheck(v) == IsNull(v) \/ Get(v) \in Recommendations

InterviewsFk(r) ==
    FkOk(r.event_id, events) /\ FkOk(r.interviewer_id, users) /\ FkOk(r.candidate_id, users)

InterviewsViolation(r) ==
    IF ~InterviewsNotNull(r) THEN "not_null_violation"
    ELSE IF ~(OverallRatingCheck(r.overall_rating) /\ RecommendationCheck(r.recommendation))
         THEN "check_violation"
    ELSE IF ~InterviewsFk(r) THEN "foreign_key_violation"
    ELSE "ok"

\* POLICY "Interviewers can view own interviews" FOR SELECT
InterviewsSelectOwn(uid, vis, r) ==
    ~IsNull(r.interviewer_id) /\ Get(r.interviewer_id) \in OwnIds(uid, vis)

\* POLICY "Admins can view all interviews" FOR SELECT
InterviewsSelectAdmin(uid, vis, r) == IsActiveAdmin(uid, vis)

\* POLICY "Active members can view candidate interviews" FOR SELECT
InterviewsSelectMember(uid, vis, r) == IsActiveMember(uid, vis)

InterviewsSelectUsing(uid, vis, r) ==
    \/ InterviewsSelectOwn(uid, vis, r)
    \/ InterviewsSelectAdmin(uid, vis, r)
    \/ InterviewsSelectMember(uid, vis, r)

\* a check that only asks for the interviewer to be the caller's own row
InterviewsInsertCheckOwn(uid, vis, r) ==
    ~IsNull(r.interviewer_id) /\ Get(r.interviewer_id) \in OwnIds(uid, vis)

\* POLICY "Active members can create interviews" FOR INSERT WITH CHECK
InterviewsInsertCheck(uid, vis, r) ==
    /\ ~IsNull(r.interviewer_id)
    /\ Get(r.interviewer_id) \in {u.id : u \in {v \in vis : /\ SqlEq(v.supabase_id, Val(uid))
                                                             /\ v.role \in {"ACTIVE", "ADMIN"}
                                                             /\ v.is_active}}

\* POLICY "Interviewers can update own interviews" FOR UPDATE USING
InterviewsUpdateUsing(uid, vis, r) ==
    ~IsNull(r.interviewer_id) /\ Get(r.interviewer_id) \in OwnIds(uid, vis)

\* POLICY "Admins can delete interviews" FOR DELETE USING
InterviewsDeleteUsing(uid, vis, r) == IsActiveAdmin(uid, vis)

\* INSERT INTO interviews (...) VALUES (...)
InsertInterviews(sess, new) ==
    /\ HasRoom(interviews, MaxRows)
    /\ LET row == [id |-> NewId(interviews, MaxRows)] @@ new @@ [updated_at |-> now]
           res == IF ~BypassRls(sess) /\ ~InterviewsInsertCheck(sess.uid, UsersVisibleTo(sess), row)
                  THEN "insufficient_privilege"
                  ELSE InterviewsViolation(row)
       IN /\ interviews' = IF res = "ok" THEN interviews \cup {row} ELSE interviews
          /\ Done("insert_interviews", sess, res)
    /\ UNCHANGED <<users, events, attendance, votes, feedback, calls, dues_payments, now, schema>>

\* UPDATE interviews SET ... WHERE id = id
UpdateInterviews(sess, id, set) ==
    /\ LET vis == UsersVisibleTo(sess)
           hit == {r \in interviews : /\ r.id = id
                                      /\ \/ BypassRls(sess)
                                         \/ /\ InterviewsUpdateUsing(sess.uid, vis, r)
                                            /\ InterviewsSelectUsing(sess.uid, vis, r)}
       IN IF hit = {}
          THEN /\ interviews' = interviews
               /\ Done("update_interviews", sess, "no_rows")
          ELSE LET old == CHOOSE r \in hit : TRUE
                   row == update_updated_at_column(Patch(old, set))
                   res == IF ~BypassRls(sess) /\ ~InterviewsUpdateUsing(sess.uid, vis, row)
                          THEN "insufficient_privilege"
                          ELSE InterviewsViolation(row)
               IN /\ interviews' = IF res = "ok" THEN (interviews \ {old}) \cup {row}
                                   ELSE interviews
                  /\ Done("update_interviews", sess, res)
    /\ UNCHANGED <<users, events, attendance, votes, feedback, calls, dues_payments, now, schema>>

\* DELETE FROM interviews WHERE id = id
DeleteInterviews(sess, id) ==
    /\ LET vis == UsersVisibleTo(sess)
           hit == {r \in interviews : /\ r.id = id
                                      /\ \/ BypassRls(sess)
                                         \/ InterviewsDeleteUsing(sess.uid, vis, r)}
       IN /\ interviews' = interviews \ hit
          /\ Done("delete_interviews", sess, IF hit = {} THEN "no_rows" ELSE "ok")
    /\ UNCHANGED <<users, events, attendance, votes, feedback, calls, dues_payments, now, schema>>

---------------------------------------------------------------------------
(* dues_payments: columns id, user_id, amount, payment_type,              *)
(* payment_method, status, due_date, paid_at, recorded_by, updated_at     *)

PaymentTypes == {"INITIATION", "SEMESTER", "SOCIAL", "FINE", "OTHER"}
PaymentMethods == {"CASH", "VENMO", "ZELLE", "CHECK", "BANK_TRANSFER", "OTHER"}
DuesStatuses == {"PAID", "PARTIAL", "NOT_PAID", "OVERDUE", "WAIVED"}

\* user_id, amount, due_date NOT NULL (payment_type and status too)
DuesNotNull(r) == ~IsNull(r.user_id) /\ ~IsNull(r.amount) /\ ~IsNull(r.due_date)

\* CHECK (amount >= 0)
AmountCheck(v) == IsNull(v) \/ Get(v) >= 0

\* CHECK (payment_type IN ...), CHECK (payment_method IN ...), CHECK (status IN ...)
DuesCheck(r) ==
    /\ AmountCheck(r.amount)
    /\ r.payment_type \in PaymentTypes
    /\ IsNull(r.payment_method) \/ Get(r.payment_method) \in PaymentMethods
    /\ r.status \in DuesStatuses

DuesFk(r) == FkOk(r.user_id, users) /\ FkOk(r.recorded_by, users)

DuesViolation(r) ==
    IF ~DuesNotNull(r) THEN "not_null_violation"
    ELSE IF ~DuesCheck(r) THEN "check_violation"
    ELSE IF ~DuesFk(r) THEN "foreign_key_violation"
    ELSE "ok"

\* POLICY "Users can view own dues" FOR SELECT
DuesSelectOwn(uid, vis, r) == ~IsNull(r.user_id) /\ Get(r.user_id) \in OwnIds(uid, vis)

\* POLICY "Admins can view all dues" FOR SELECT
DuesSelectAdmin(uid, vis, r) == IsActiveAdmin(uid, vis)

\* POLICY "Admins can manage dues" FOR ALL USING ... WITH CHECK ...
DuesManageUsing(uid, vis, r) == IsActiveAdmin(uid, vis)
DuesManageCheck(uid, vis, r) == IsActiveAdmin(uid, vis)

DuesSelectUsing(uid, vis, r) ==
    \/ DuesSelectOwn(uid, vis, r)
    \/ DuesSelectAdmin(uid, vis, r)
    \/ DuesManageUsing(uid, vis, r)

\* SELECT * FROM dues_payments, as the session sees it
DuesReadable(sess) ==
    IF BypassRls(sess) THEN dues_payments
    ELSE {r \in dues_payments : DuesSelectUsing(sess.uid, UsersVisibleTo(sess), r)}

\* INSERT INTO dues_payments (...) VALUES (...)
InsertDues(sess, new) ==
    /\ HasRoom(dues_payments, MaxRows)
    /\ LET row == [id |-> NewId(dues_payments, MaxRows)] @@ new @@ [updated_at |-> now]
           res == IF ~BypassRls(sess) /\ ~DuesManageCheck(sess.uid, UsersVisibleTo(sess), row)
                  THEN "insufficient_privilege"
                  ELSE DuesViolation(row)
       IN /\ dues_payments' = IF res = "ok" THEN dues_payments \cup {row} ELSE dues_payments
          /\ Done("insert_dues_payments", sess, res)
    /\ UNCHANGED <<users, events, attendance, votes, feedback, interviews, calls, now, schema>>

\* UPDATE dues_payments SET ... WHERE id = id
UpdateDues(sess, id, set) ==
    /\ LET vis == UsersVisibleTo(sess)
           hit == {r \in dues_payments : /\ r.id = id
                                         /\ \/ BypassRls(sess)
                                            \/ /\ DuesManageUsing(sess.uid, vis, r)
                                               /\ DuesSelectUsing(sess.uid, vis, r)}
       IN IF hit = {}
          THEN /\ dues_payments' = dues_payments
               /\ Done("update_dues_payments", sess, "no_rows")
          ELSE LET old == CHOOSE r \in hit : TRUE
                   row == update_updated_at_column(Patch(old, set))
                   res == IF ~BypassRls(sess) /\ ~DuesManageCheck(sess.uid, vis, row)
                          THEN "insufficient_privilege"
                          ELSE DuesViolation(row)
               IN /\ dues_payments' = IF res = "ok" THEN (dues_payments \ {old}) \cup {row}
                                      ELSE dues_payments
                  /\ Done("update_dues_payments", sess, res)
    /\ UNCHANGED <<users, events, attendance, votes, feedback, interviews, calls, now, schema>>

---------------------------------------------------------------------------
(* The database clock *)

\* time passes between two statements
Tick ==
    /\ now < MaxNow
    /\ now' = now + 1
    /\ UNCHANGED <<tables, schema, calls, last>>

---------------------------------------------------------------------------
(* Deleting a referenced row: ON DELETE CASCADE deletes the referencing   *)
(* rows, ON DELETE SET NULL nulls the referencing column.  The referential *)
(* actions run inside the DELETE, under no policy; the UPDATE of SET NULL  *)
(* fires the row's BEFORE UPDATE trigger.                                 *)

Refs(ref, id) == SqlEq(ref, Val(id))
\* a reference declared with no ON DELETE action that the delete does not stop
SetNullKeep(table, col, id) == table

\* ON DELETE CASCADE declared in place of ON DELETE SET NULL
SetNullCascade(table, col, id) == {r \in table : ~Refs(r[col], id)}

SetNull(table, col, id) ==
    {IF Refs(r[col], id) THEN update_updated_at_column([r EXCEPT ![col] = NULL]) ELSE r : r \in table}

\* DELETE FROM users WHERE id = id (users has no policy: only the service
\* role deletes)
DeleteUsers(sess, id) ==
    /\ LET hit == {u \in users : u.id = id /\ (BypassRls(sess) \/ UsersPolicy(sess.uid, u))}
       IN IF hit = {}
          THEN /\ UNCHANGED tables
               /\ Done("delete_users", sess, "no_rows")
          ELSE /\ users' = users \ hit
               \* events.created_by ON DELETE SET NULL
               /\ events' = SetNull(events, "created_by", id)
               \* attendance.user_id ON DELETE CASCADE, checked_in_by ON DELETE SET NULL
               /\ attendance' = SetNull({a \in attendance : ~Refs(a.user_id, id)}, "checked_in_by", id)
               \* votes.voter_id, votes.candidate_id ON DELETE CASCADE
               /\ votes' = {v \in votes : ~Refs(v.voter_id, id) /\ ~Refs(v.candidate_id, id)}
               \* feedback.author_id, feedback.candidate_id ON DELETE CASCADE
               /\ feedback' = {f \in feedback : ~Refs(f.author_id, id) /\ ~Refs(f.candidate_id, id)}
               \* interviews.interviewer_id, interviews.candidate_id ON DELETE CASCADE
               /\ interviews' = {i \in interviews : ~Refs(i.interviewer_id, id) /\ ~Refs(i.candidate_id, id)}
               \* dues_payments.user_id ON DELETE CASCADE, recorded_by ON DELETE SET NULL
               /\ dues_payments' = SetNull({d \in dues_payments : ~Refs(d.user_id, id)}, "recorded_by", id)
               /\ Done("delete_users", sess, "ok")
    /\ UNCHANGED <<calls, now, schema>>

\* a policy that admits every active member: role IN ('ACTIVE', 'ADMIN')
EventsManageMembers(uid, vis, r) == IsActiveMember(uid, vis)

\* POLICY "Admins can manage events" FOR ALL USING
EventsManageUsing(uid, vis, r) == IsActiveAdmin(uid, vis)

\* POLICY "Authenticated users can view active events" FOR SELECT
EventsSelectActive(uid, vis, r) == r.is_active

EventsSelectUsing(uid, vis, r) == EventsSelectActive(uid, vis, r) \/ EventsManageUsing(uid, vis, r)

EventTypes == {"DINNER", "SMOKER", "INTERVIEW", "SOCIAL", "MEETING", "OTHER"}

\* events: columns id, event_type, start_time, end_time, created_by,
\* is_active, updated_at (title and the other free columns are under no
\* constraint between columns and no policy, and are left out).
\* CHECK (event_type IN (...)); no CHECK relates end_time to start_time
EventsCheck(r) == r.event_type \in EventTypes

\* created_by REFERENCES users(id)
EventsFk(r) == FkOk(r.created_by, users)

EventsViolation(r) ==
    IF ~EventsCheck(r) THEN "check_violation"
    ELSE IF ~EventsFk(r) THEN "foreign_key_violation"
    ELSE "ok"

\* INSERT INTO events (...) VALUES (...)
InsertEvents(sess, new) ==
    /\ HasRoom(events, MaxEvents)
    /\ LET row == [id |-> NewId(events, MaxEvents)] @@ new @@ [updated_at |-> now]
           res == IF ~BypassRls(sess) /\ ~EventsManageUsing(sess.uid, UsersVisibleTo(sess), row)
                  THEN "insufficient_privilege"
                  ELSE EventsViolation(row)
       IN /\ events' = IF res = "ok" THEN events \cup {row} ELSE events
          /\ Done("insert_events", sess, res)
    /\ UNCHANGED <<users, attendance, votes, feedback, interviews, calls, dues_payments, now, schema>>

\* UPDATE events SET ... WHERE id = id
UpdateEvents(sess, id, set) ==
    /\ LET vis == UsersVisibleTo(sess)
           hit == {r \in events : /\ r.id = id
                                  /\ \/ BypassRls(sess)
                                     \/ /\ EventsManageUsing(sess.uid, vis, r)
                                        /\ EventsSelectUsing(sess.uid, vis, r)}
       IN IF hit = {}
          THEN /\ events' = events
               /\ Done("update_events", sess, "no_rows")
          ELSE LET old == CHOOSE r \in hit : TRUE
                   row == update_updated_at_column(Patch(old, set))
                   res == IF ~BypassRls(sess) /\ ~EventsManageUsing(sess.uid, vis, row)
                          THEN "insufficient_privilege"
                          ELSE EventsViolation(row)
               IN /\ events' = IF res = "ok" THEN (events \ {old}) \cup {row} ELSE events
                  /\ Done("update_events", sess, res)
    /\ UNCHANGED <<users, attendance, votes, feedback, interviews, calls, dues_payments, now, schema>>

\* DELETE FROM events WHERE id = id
DeleteEvents(sess, id) ==
    /\ LET vis == UsersVisibleTo(sess)
           hit == {e \in events : e.id = id /\ (BypassRls(sess) \/ EventsManageUsing(sess.uid, vis, e))}
       IN IF hit = {}
          THEN /\ UNCHANGED tables
               /\ Done("delete_events", sess, "no_rows")
          ELSE /\ events' = events \ hit
               \* attendance.event_id ON DELETE CASCADE
               /\ attendance' = {a \in attendance : ~Refs(a.event_id, id)}
               \* votes.event_id, feedback.event_id, interviews.event_id ON DELETE SET NULL
               /\ votes' = SetNull(votes, "event_id", id)
               /\ feedback' = SetNull(feedback, "event_id", id)
               /\ interviews' = SetNull(interviews, "event_id", id)
               /\ UNCHANGED <<users, dues_payments>>
               /\ Done("delete_events", sess, "ok")
    /\ UNCHANGED <<calls, now, schema>>

---------------------------------------------------------------------------
(* submitBallot(data, user) of src/services/votes: a role test, then      *)
(* prisma.votes.findFirst, then prisma.votes.create.  Each await is a     *)
(* point where other invocations run; each Prisma query is one statement  *)
(* of the service role.                                                   *)

CallIds == 1..MaxCalls

\* a property the request body does not carry
Undefined == <<"undefined", "undefined">>

\* Prisma writes no column for an undefined value: the column takes its default
ToColumn(x) == IF x = Undefined THEN NULL ELSE x

\* a Prisma where-filter on one column: undefined is no filter, null is
\* IS NULL, a value is equality
Matches(filter, col) ==
    IF filter = Undefined THEN TRUE
    ELSE IF IsNull(filter) THEN IsNull(col)
    ELSE SqlEq(col, filter)

NoUser == [id |-> 0, role |-> "none"]
NoData == [candidate_id |-> Undefined, vote_type |-> "none", voting_round |-> Undefined,
           vote_value |-> Undefined]
IdleCall == [pc |-> "idle", user |-> NoUser, data |-> NoData, result |-> "none"]

\* a look-up that compares the round with =, also when it is null
FindFirstVoteByEquality(user, data) ==
    {r \in votes : /\ SqlEq(Val(user.id), r.voter_id)
                   /\ SqlEq(ToColumn(data.candidate_id), r.candidate_id)
                   /\ SqlEq(ToColumn(data.voting_round), r.voting_round)}

\* prisma.votes.findFirst({where: {voter_id, candidate_id, voting_round}})
FindFirstVote(user, data) ==
    {r \in votes : /\ Matches(Val(user.id), r.voter_id)
                   /\ Matches(data.candidate_id, r.candidate_id)
                   /\ Matches(data.voting_round, r.voting_round)}

\* the row prisma.votes.create writes: event_id is not given and
\* is_anonymous takes its default
CreatedVote(user, data) ==
    [id |-> NewId(votes, MaxVotes), event_id |-> NULL, voter_id |-> Val(user.id),
     candidate_id |-> ToColumn(data.candidate_id), vote_type |-> data.vote_type,
     vote_value |-> ToColumn(data.vote_value), is_anonymous |-> TRUE,
     voting_round |-> ToColumn(data.voting_round), updated_at |-> now]

\* the call: if (user.role !== 'ACTIVE') throw; else await findFirst.
\* Invocations are numbered in their order of arrival.
SubmitBallot(c, user, data) ==
    /\ calls[c].pc = "idle"
    /\ \A d \in CallIds : d < c => calls[d].pc # "idle"
    /\ calls' = [calls EXCEPT ![c] =
                    IF user.role # "ACTIVE"
                    THEN [pc |-> "done", user |-> user, data |-> data, result |-> "not_active"]
                    ELSE [pc |-> "find", user |-> user, data |-> data, result |-> "none"]]
    /\ Done("submitBallot", ServiceRole, IF user.role # "ACTIVE" THEN "not_active" ELSE "await")
    /\ UNCHANGED <<tables, now, schema>>

\* findFirst runs; if (existing) throw; else await create
BallotFind(c) ==
    /\ calls[c].pc = "find"
    /\ LET existing == FindFirstVote(calls[c].user, calls[c].data)
       IN /\ calls' = [calls EXCEPT ![c] =
                          IF existing # {}
                          THEN [@ EXCEPT !.pc = "done", !.result = "already_voted"]
                          ELSE [@ EXCEPT !.pc = "create"]]
          /\ Done("submitBallot", ServiceRole, IF existing # {} THEN "already_voted" ELSE "await")
    /\ UNCHANGED <<tables, now, schema>>

\* create runs: the INSERT succeeds, or its error is thrown to the route
BallotCreate(c) ==
    /\ calls[c].pc = "create"
    /\ HasRoom(votes, MaxVotes)
    /\ LET row == CreatedVote(calls[c].user, calls[c].data)
           res == VotesInsertResult(ServiceRole, row)
       IN /\ votes' = IF res = "ok" THEN votes \cup {row} ELSE votes
          /\ calls' = [calls EXCEPT ![c] = [@ EXCEPT !.pc = "done",
                                              !.result = IF res = "ok" THEN "created" ELSE res]]
          /\ Done("submitBallot", ServiceRole, IF res = "ok" THEN "created" ELSE res)
    /\ UNCHANGED <<users, events, attendance, feedback, interviews, dues_payments, now, schema>>

---------------------------------------------------------------------------
(* The health route: router.get('/health') mounted under /api, with no    *)
(* middleware before it                                                   *)

\* the HTTP client of a route that asks for no credentials
Anonymous == [role |-> "anon", uid |-> 0]

\* the process started at time 1; new Date().toISOString() is the clock's
\* value as text
getHealthStatus == [status |-> "ok", uptime |-> now - 1, timestamp |-> ToString(now)]

\* GET /api/health: res.json(getHealthStatus())
GetHealth ==
    /\ Done("GET /api/health", Anonymous, getHealthStatus)
    /\ UNCHANGED <<tables, now, schema, calls>>

---------------------------------------------------------------------------
(* The migrations 001 to 008.  Each is a script run by the owner of the   *)
(* database; a statement that names a table or function that does not    *)
(* exist, or creates one that does, fails.                                *)

Migrations == 1..8

TriggerFunction == "update_updated_at_column()"
StageColumn == "users.candidate_stage"

\* CREATE TABLE / CREATE OR REPLACE FUNCTION / ALTER TABLE ... ADD COLUMN
Creates(m) ==
    CASE m = 1 -> {"users", TriggerFunction}
      [] m = 2 -> {"events"}
      [] m = 3 -> {"attendance"}
      [] m = 4 -> {"votes"}
      [] m = 5 -> {"feedback"}
      [] m = 6 -> {"dues_payments"}
      [] m = 7 -> {"interviews"}
      [] m = 8 -> {StageColumn}

\* a migration that names no table or function of another migration
ReferencesNothing(m) == {}

\* REFERENCES t(id), FROM t in a policy, ALTER TABLE t, UPDATE t,
\* EXECUTE FUNCTION f of the migration's statements (auth.users is Supabase's)
References(m) ==
    CASE m = 1 -> {}
      [] m = 2 -> {"users", TriggerFunction}
      [] m = 3 -> {"users", "events", TriggerFunction}
      [] m = 4 -> {"users", "events", TriggerFunction}
      [] m = 5 -> {"users", "events", TriggerFunction}
      [] m = 6 -> {"users", TriggerFunction}
      [] m = 7 -> {"users", "events", TriggerFunction}
      [] m = 8 -> {"users"}

AllMigrated == UNION {Creates(m) : m \in Migrations}

\* the outcome of the script's first statement
MigrationResult(m) ==
    IF ~("users" \in References(m) => "users" \in schema) THEN "undefined_table"
    ELSE IF ~("events" \in References(m) => "events" \in schema) THEN "undefined_table"
    ELSE IF Creates(m) \ {TriggerFunction} \subseteq schema THEN "duplicate_object"
    ELSE IF ~(References(m) \subseteq schema) THEN "undefined_function"
    ELSE "ok"

\* a backfill without the test of the role:
\* UPDATE users SET candidate_stage = 'INITIAL' WHERE candidate_stage IS NULL
BackfillAnyRole(rows) ==
    {IF IsNull(u.candidate_stage)
     THEN update_updated_at_column([u EXCEPT !.candidate_stage = Val("INITIAL")])
     ELSE u : u \in rows}

\* UPDATE users SET candidate_stage = 'INITIAL'
\* WHERE role = 'RUSHEE' AND candidate_stage IS NULL
Backfill(rows) ==
    {IF u.role = "RUSHEE" /\ IsNull(u.candidate_stage)
     THEN update_updated_at_column([u EXCEPT !.candidate_stage = Val("INITIAL")])
     ELSE u : u \in rows}

\* the script of migration m is run; run as one transaction a failure undoes
\* all of it, run statement by statement the statements after the failed one
\* still run, of which only the UPDATE of 008 can then succeed
Migration(m, atomic) ==
    /\ LET res == MigrationResult(m)
       IN /\ schema' = IF res = "ok" THEN schema \cup Creates(m) ELSE schema
          /\ users' = IF m = 8 /\ (res = "ok" \/ (~atomic /\ StageColumn \in schema))
                      THEN Backfill(users) ELSE users
          /\ Done("migration_" \o ToString(m), ServiceRole, res)
    /\ UNCHANGED <<events, attendance, votes, feedback, interviews, dues_payments, now, calls>>

---------------------------------------------------------------------------
(* The rows the specifications start from and draw their inputs from      *)

\* sign-up mirrors the Supabase Auth user k as users row k; the roles are
\* the four of the role CHECK, in rotation
RoleOf(k) == CASE k % 4 = 1 -> "ADMIN"
               [] k % 4 = 2 -> "ACTIVE"
               [] k % 4 = 3 -> "RUSHEE"
               [] OTHER -> "PLEDGE"
EmailOf(k) == "user" \o ToString(k) \o "@rush.test"
UserRow(k) == [id |-> k, supabase_id |-> Val(k), email |-> Val(EmailOf(k)),
               role |-> RoleOf(k), is_active |-> TRUE, candidate_stage |-> NULL,
               updated_at |-> 1]
SeededUsers == {UserRow(k) : k \in 1..MaxUsers}

EventRow(k) == [id |-> k, event_type |-> "DINNER", start_time |-> 1, end_time |-> NULL,
                created_by |-> Val(1), is_active |-> TRUE, updated_at |-> 1]
SeededEvents == {EventRow(k) : k \in 1..MaxEvents}

UserIds == 1..MaxUsers
EventIds == 1..MaxEvents
Sessions == {ServiceRole} \cup {Authenticated(k) : k \in UserIds}
Rounds == {NULL, Val("Round 1")}

NoOp == [op |-> "none", sess |-> ServiceRole, result |-> "ok"]

Seeded ==
    /\ users = SeededUsers
    /\ events = SeededEvents
    /\ attendance = {}
    /\ votes = {}
    /\ feedback = {}
    /\ interviews = {}
    /\ dues_payments = {}
    /\ now = 1
    /\ schema = AllMigrated
    /\ calls = [c \in CallIds |-> IdleCall]
    /\ last = NoOp

---------------------------------------------------------------------------
(* SpecVoteKeys: inserts, updates and deletes of votes that differ in the *)
(* columns of the unique key, with users and events deleted underneath    *)

KeyVoters == {Val(k) : k \in {1, 2}}
KeyCandidates == {Val(3)}
KeyVotes == [event_id : {NULL} \cup {Val(e) : e \in EventIds}, voter_id : KeyVoters,
             candidate_id : KeyCandidates, vote_type : {"BID"}, vote_value : {NULL},
             is_anonymous : {TRUE}, voting_round : Rounds]
KeySets == [voter_id : KeyVoters, voting_round : Rounds] \cup [vote_type : {"NO_BID"}]
KeySessions == {ServiceRole, Authenticated(2)}

NextVoteKeys ==
    \/ \E s \in KeySessions, new \in KeyVotes : InsertVotes(s, new)
    \/ \E s \in KeySessions, id \in 1..MaxVotes, set \in KeySets : UpdateVotes(s, id, set)
    \/ \E s \in KeySessions, id \in 1..MaxVotes : DeleteVotes(s, id)
    \/ \E s \in KeySessions, id \in UserIds : DeleteUsers(s, id)
    \/ \E s \in KeySessions, id \in EventIds : DeleteEvents(s, id)

SpecVoteKeys == Seeded /\ [][NextVoteKeys]_vars

\* C1: the votes table never holds two rows with the same voter, the same
\* candidate and the same voting round, rows without a round label included
\* (two rows without a label are rows of the same round).
SameBallot(a, b) ==
    a.voter_id = b.voter_id /\ a.candidate_id = b.candidate_id /\ a.voting_round = b.voting_round
C1_OneBallotPerRound == \A a \in votes, b \in votes : SameBallot(a, b) => a = b

---------------------------------------------------------------------------
(* SpecVoteReads: ballots of two voters, anonymous or not, read by every  *)
(* session while users are deactivated, reactivated, promoted and demoted *)

ReadVotes == [event_id : {NULL}, voter_id : {Val(1), Val(2)}, candidate_id : {Val(3)},
              vote_type : {"BID"}, vote_value : {NULL}, is_anonymous : BOOLEAN,
              voting_round : {Val("Round 1")}]
ReadUserSets == [is_active : BOOLEAN]
ReadRoleSets == [role : {"ADMIN", "ACTIVE"}]

NextVoteReads ==
    \/ \E s \in Sessions, new \in ReadVotes : InsertVotes(s, new)
    \/ \E s \in Sessions, id \in UserIds, set \in ReadUserSets : UpdateUsers(s, id, set)
    \/ \E s \in Sessions, set \in ReadRoleSets : UpdateUsers(s, 1, set)

SpecVoteReads == Seeded /\ [][NextVoteReads]_vars

\* the ballots cast by the user whose Supabase Auth id is uid
OwnVotes(uid) == {r \in votes : \E u \in users : SqlEq(Val(u.id), r.voter_id) /\ SqlEq(u.supabase_id, Val(uid))}

\* C3: a caller who is not an active ADMIN reads only ballots whose voter is
\* the caller, whatever the ballot's is_anonymous flag; this holds of the
\* policies as they are evaluated (against the users rows the caller can
\* see) and of the policies evaluated against any part of users.
C3_ReadsOwnOnly ==
    \A k \in UserIds :
        ~IsActiveAdmin(k, users) =>
            /\ VotesReadable(Authenticated(k)) \subseteq OwnVotes(k)
            /\ \A vis \in SUBSET users :
                  {r \in votes : VotesSelectUsing(k, vis, r)} \subseteq OwnVotes(k)

\* a caller who is no active admin and has a ballot, while another voter's
\* ballot with is_anonymous = false is stored
C3_Witness ==
    \E k \in UserIds :
        /\ ~IsActiveAdmin(k, users)
        /\ {r \in votes : VotesSelectUsing(k, users, r)} # {}
        /\ \E r \in votes : r \notin OwnVotes(k) /\ ~r.is_anonymous

---------------------------------------------------------------------------
(* SpecBallot: invocations of submitBallot by active members for one      *)
(* candidate, interleaved at their awaits                                 *)

\* req.user, as the auth middleware reads it from users
ReqUser(k) == [id |-> k, role |-> (RowById(users, k)).role]
BallotData == [candidate_id : {Val(3)}, vote_type : {"BID", "NO_BID"},
               voting_round : {Undefined, NULL, Val("Round 1")}, vote_value : {Val(8)}]

NextBallot ==
    \/ \E c \in CallIds, d \in BallotData : SubmitBallot(c, ReqUser(2), d)
    \/ \E c \in CallIds : BallotFind(c)
    \/ \E c \in CallIds : BallotCreate(c)

SpecBallot == Seeded /\ [][NextBallot]_vars

\* the stored ballots of a (voter, candidate, round) triple; a call without
\* a round is a call for the round without a label
BallotsOf(user, data) ==
    {r \in votes : /\ r.voter_id = Val(user.id)
                   /\ r.candidate_id = ToColumn(data.candidate_id)
                   /\ r.voting_round = ToColumn(data.voting_round)}
SameTriple(a, b) ==
    /\ a.user.id = b.user.id
    /\ ToColumn(a.data.candidate_id) = ToColumn(b.data.candidate_id)
    /\ ToColumn(a.data.voting_round) = ToColumn(b.data.voting_round)

\* C2: when two calls for the same (voter, candidate, round) triple have both
\* finished, however their look-up and insert steps interleaved, exactly one
\* of them inserted a row and exactly one ballot of the triple is stored.
C2_OneInsertPerTriple ==
    \A c \in CallIds, d \in CallIds :
        (/\ c # d
         /\ calls[c].pc = "done" /\ calls[d].pc = "done"
         /\ calls[c].user.role = "ACTIVE" /\ calls[d].user.role = "ACTIVE"
         /\ SameTriple(calls[c], calls[d]))
        => /\ (calls[c].result = "created") # (calls[d].result = "created")
           /\ Cardinality(BallotsOf(calls[c].user, calls[c].data)) = 1

\* the look-up step of a call whose voter holds a ballot of the call's triple
FindsHeld(c) ==
    /\ calls[c].pc = "find"
    /\ calls'[c] # calls[c]
    /\ BallotsOf(calls[c].user, calls[c].data) # {}

---------------------------------------------------------------------------
(* SpecBallotRoles: submitBallot called by users of every role for        *)
(* candidates of every role                                               *)

RoleBallotData == [candidate_id : {Val(k) : k \in UserIds}, vote_type : {"BID"},
                   voting_round : {Val("Round 1")}, vote_value : {Val(8)}]

NextBallotRoles ==
    \/ \E c \in CallIds, k \in UserIds, d \in RoleBallotData : SubmitBallot(c, ReqUser(k), d)
    \/ \E c \in CallIds : BallotFind(c)
    \/ \E c \in CallIds : BallotCreate(c)

SpecBallotRoles == Seeded /\ [][NextBallotRoles]_vars

RoleOfUser(ref) == (RowById(users, Get(ref))).role

\* C6: a call succeeds only when the voter's role is ACTIVE or ADMIN and the
\* candidate's role is RUSHEE; with any other roles it fails with the
\* authorization error (and so inserts nothing).
C6_RolesGateBallot ==
    \A c \in CallIds :
        calls[c].pc = "done" =>
            LET allowed == /\ calls[c].user.role \in {"ACTIVE", "ADMIN"}
                           /\ RoleOfUser(calls[c].data.candidate_id) = "RUSHEE"
            IN /\ calls[c].result = "created" => allowed
               /\ ~allowed => calls[c].result = "not_active"

---------------------------------------------------------------------------
(* SpecAttendance: attendance rows of two users inserted, updated in      *)
(* their status and in their user, and deleted, also through the deletion *)
(* of their event                                                         *)

AttendanceRows == [event_id : {Val(e) : e \in EventIds}, user_id : {Val(2), Val(3)},
                   rsvp_status : {NULL}, status : {"PENDING", "PRESENT"},
                   checked_in_at : {NULL}, checked_in_by : {NULL}]
AttendanceSets == [status : {"LATE", "PRESENT", "HERE"}] \cup [user_id : {Val(2), Val(3)}]
AttendanceSessions == {ServiceRole, Authenticated(1), Authenticated(2)}

NextAttendance ==
    \/ \E s \in AttendanceSessions, new \in AttendanceRows : InsertAttendance(s, new)
    \/ \E s \in AttendanceSessions, id \in 1..MaxRows, set \in AttendanceSets :
          UpdateAttendance(s, id, set)
    \/ \E s \in AttendanceSessions, id \in 1..MaxRows : DeleteAttendance(s, id)
    \/ \E s \in AttendanceSessions, id \in EventIds : DeleteEvents(s, id)

SpecAttendance == Seeded /\ [][NextAttendance]_vars

AttendanceOf(event_id, user_id) ==
    {a \in attendance : a.event_id = event_id /\ a.user_id = user_id}

\* C7: the attendance table holds at most one row per (event, user) pair;
\* an insert for a pair that has a row changes nothing and fails, with a
\* unique violation when the row is otherwise acceptable; an update of the
\* status of an existing row to a status of the CHECK succeeds, sets the
\* status and leaves the pair with one row.
C7_OneRowPerPair ==
    /\ [](\A a \in attendance : Cardinality(AttendanceOf(a.event_id, a.user_id)) = 1)
    /\ [][\A s \in AttendanceSessions, new \in AttendanceRows :
            (AttendanceOf(new.event_id, new.user_id) # {} /\ InsertAttendance(s, new))
            => /\ attendance' = attendance
               /\ last'.result # "ok"
               /\ BypassRls(s) => last'.result = "unique_violation"]_vars
    /\ [][\A id \in 1..MaxRows, st \in AttendanceStatuses :
            (id \in Ids(attendance) /\ UpdateAttendance(ServiceRole, id, [status |-> st]))
            => /\ last'.result = "ok"
               /\ Ids(attendance') = Ids(attendance)
               /\ LET row == RowById(attendance', id)
                  IN /\ row = [RowById(attendance, id) EXCEPT !.status = st, !.updated_at = now]
                     /\ Cardinality({a \in attendance' : a.event_id = row.event_id
                                                        /\ a.user_id = row.user_id}) = 1]_vars

\* an insert has just failed on the unique key while a row of a pair has
\* been set to LATE by an update
C7_Witness ==
    /\ last.op = "insert_attendance"
    /\ last.result = "unique_violation"
    /\ \E a \in attendance : a.status = "LATE"

---------------------------------------------------------------------------
(* SpecUsers: user rows created, changed in email and supabase_id, and    *)
(* deleted, starting from the database the migrations leave               *)

Migrated ==
    /\ users = {} /\ events = {} /\ attendance = {}
    /\ votes = {} /\ feedback = {} /\ interviews = {}
    /\ dues_payments = {}
    /\ now = 1
    /\ schema = AllMigrated
    /\ calls = [c \in CallIds |-> IdleCall]
    /\ last = NoOp

NewEmails == {NULL, Val(EmailOf(1)), Val(EmailOf(2)), Val(EmailOf(3))}
NewSupabaseIds == {NULL, Val(1), Val(2)}
NewUsers == [supabase_id : NewSupabaseIds, email : NewEmails, role : {"RUSHEE"},
             is_active : {TRUE}, candidate_stage : {NULL}]
UserSets == [email : NewEmails] \cup [supabase_id : NewSupabaseIds]
UserSessions == {ServiceRole, Authenticated(1)}

NextUsers ==
    \/ \E s \in UserSessions, new \in NewUsers : InsertUsers(s, new)
    \/ \E s \in UserSessions, id \in UserIds, set \in UserSets : UpdateUsers(s, id, set)
    \/ \E s \in UserSessions, id \in UserIds : DeleteUsers(s, id)

SpecUsers == Migrated /\ [][NextUsers]_vars

\* another row than id holds the email or the supabase_id of r
HeldByAnother(r, id) ==
    \E o \in users : o.id # id /\ (SqlEq(o.email, r.email) \/ SqlEq(o.supabase_id, r.supabase_id))

\* C8: no two user rows share an email or a supabase_id; an insert of a row,
\* or an update of a row, to an email or supabase_id that another row holds
\* fails and leaves the users table unchanged, with a unique violation when
\* the statement is run by the service role and leaves no column NULL.
C8_UniqueEmailAndAuthId ==
    /\ [](\A a \in users, b \in users :
            (SqlEq(a.email, b.email) \/ SqlEq(a.supabase_id, b.supabase_id)) => a = b)
    /\ [][\A s \in UserSessions, new \in NewUsers :
            (HeldByAnother(new, 0) /\ InsertUsers(s, new))
            => /\ users' = users
               /\ last'.result # "ok"
               /\ (BypassRls(s) /\ UsersNotNull(new)) => last'.result = "unique_violation"]_vars
    /\ [][\A s \in UserSessions, id \in UserIds, set \in UserSets :
            (/\ id \in Ids(users)
             /\ HeldByAnother(Patch(RowById(users, id), set), id)
             /\ UpdateUsers(s, id, set))
            => /\ users' = users
               /\ last'.result # "ok"
               /\ (BypassRls(s) /\ UsersNotNull(Patch(RowById(users, id), set)))
                      => last'.result = "unique_violation"]_vars

\* an update has just failed on a unique key while two users are stored
C8_Witness ==
    /\ last.op = "update_users"
    /\ last.result = "unique_violation"
    /\ Cardinality(users) = 2

\* C27: users has row level security and no policy: an authenticated
\* session sees no users row, and an insert, update or delete of a users row
\* by such a session changes nothing (the insert is refused, the update and
\* the delete find no row); the look-ups of the caller in users that the
\* policies of the other tables make range over the rows the session sees,
\* and so find nothing.
C27_UsersClosedToSessions ==
    /\ [](\A k \in AuthUsers :
            /\ UsersVisibleTo(Authenticated(k)) = {}
            /\ OwnIds(k, UsersVisibleTo(Authenticated(k))) = {}
            /\ ~IsActiveAdmin(k, UsersVisibleTo(Authenticated(k)))
            /\ ~IsActiveMember(k, UsersVisibleTo(Authenticated(k))))
    /\ [][\A s \in UserSessions \ {ServiceRole} :
            /\ \A new \in NewUsers :
                  InsertUsers(s, new) =>
                      (users' = users /\ last'.result = "insufficient_privilege")
            /\ \A id \in UserIds, set \in UserSets :
                  UpdateUsers(s, id, set) => (users' = users /\ last'.result = "no_rows")
            /\ \A id \in UserIds :
                  DeleteUsers(s, id) => (users' = users /\ last'.result = "no_rows")]_vars

\* the session of Supabase user 1 has just updated no row, although the
\* users row of that very user is stored
C27_Witness ==
    /\ last.op = "update_users"
    /\ last.sess = Authenticated(1)
    /\ last.result = "no_rows"
    /\ \E u \in users : u.supabase_id = Val(1)

---------------------------------------------------------------------------
(* SpecRatings: votes, feedback and interviews inserted, and updated by   *)
(* the service role, with values on, inside and outside the bounds of     *)
(* their CHECK constraints                                                *)

VoteValues == {NULL, Val(0), Val(1), Val(10), Val(11)}
FeedbackRatings == {Val(0), Val(1), Val(5), Val(6)}
OverallRatings == {NULL, Val(0), Val(5), Val(6)}
RatedVotes == [event_id : {NULL}, voter_id : {Val(2)}, candidate_id : {Val(3)},
               vote_type : {"BID"}, vote_value : VoteValues,
               is_anonymous : {TRUE}, voting_round : {Val("Round 1")}]
RatedFeedback == [event_id : {NULL}, author_id : {Val(2)}, candidate_id : {Val(3)},
                  rating : FeedbackRatings, is_anonymous : {FALSE}, is_private : {FALSE}]
RatedInterviews == [event_id : {NULL}, interviewer_id : {Val(2)}, candidate_id : {Val(3)},
                    overall_rating : OverallRatings, recommendation : {NULL}, is_complete : {TRUE}]
RatingSessions == {ServiceRole, Authenticated(2)}

NextRatings ==
    \/ \E s \in RatingSessions, new \in RatedVotes : InsertVotes(s, new)
    \/ \E id \in 1..MaxVotes, v \in VoteValues : UpdateVotes(ServiceRole, id, [vote_value |-> v])
    \/ \E s \in RatingSessions, new \in RatedFeedback : InsertFeedback(s, new)
    \/ \E id \in 1..MaxRows, v \in FeedbackRatings : UpdateFeedback(ServiceRole, id, [rating |-> v])
    \/ \E s \in RatingSessions, new \in RatedInterviews : InsertInterviews(s, new)
    \/ \E id \in 1..MaxRows, v \in OverallRatings :
          UpdateInterviews(ServiceRole, id, [overall_rating |-> v])

SpecRatings == Seeded /\ [][NextRatings]_vars

InRange(v, lo, hi) == IsNull(v) \/ Get(v) \in lo..hi

\* the step is a statement op of session s (every statement records both)
Ran(op, s) == last'.op = op /\ last'.sess = s

\* the statement changed no table and did not succeed; run by the service
\* role it failed on the CHECK
Rejected(s) ==
    /\ UNCHANGED tables
    /\ last'.result # "ok"
    /\ BypassRls(s) => last'.result \in {"check_violation", "no_rows"}

\* C9: every stored vote_value is NULL or in 1..10 and every stored feedback
\* rating and interview overall_rating is NULL or in 1..5; an insert or an
\* update that supplies a value outside the range is rejected and changes no
\* table.
C9_RatingsInRange ==
    /\ [](/\ \A v \in votes : InRange(v.vote_value, 1, 10)
          /\ \A f \in feedback : InRange(f.rating, 1, 5)
          /\ \A i \in interviews : InRange(i.overall_rating, 1, 5))
    /\ [][\A s \in RatingSessions :
            /\ Ran("insert_votes", s) =>
                 \A new \in RatedVotes :
                    (~InRange(new.vote_value, 1, 10) /\ InsertVotes(s, new)) => Rejected(s)
            /\ Ran("insert_feedback", s) =>
                 \A new \in RatedFeedback :
                    (~InRange(new.rating, 1, 5) /\ InsertFeedback(s, new)) => Rejected(s)
            /\ Ran("insert_interviews", s) =>
                 \A new \in RatedInterviews :
                    (~InRange(new.overall_rating, 1, 5) /\ InsertInterviews(s, new))
                        => Rejected(s)
            /\ Ran("update_votes", s) =>
                 \A id \in 1..MaxVotes, v \in VoteValues :
                    (~InRange(v, 1, 10) /\ UpdateVotes(s, id, [vote_value |-> v]))
                        => Rejected(s)
            /\ Ran("update_feedback", s) =>
                 \A id \in 1..MaxRows, v \in FeedbackRatings :
                    (~InRange(v, 1, 5) /\ UpdateFeedback(s, id, [rating |-> v]))
                        => Rejected(s)
            /\ Ran("update_interviews", s) =>
                 \A id \in 1..MaxRows, v \in OverallRatings :
                    (~InRange(v, 1, 5) /\ UpdateInterviews(s, id, [overall_rating |-> v]))
                        => Rejected(s)]_vars

\* an update of a stored feedback row has just failed on the CHECK while a
\* vote with value 10 and an interview with rating 5 are stored
C9_Witness ==
    /\ last.op = "update_feedback"
    /\ last.result = "check_violation"
    /\ \E v \in votes : v.vote_value = Val(10)
    /\ \E i \in interviews : i.overall_rating = Val(5)

---------------------------------------------------------------------------
(* SpecInterviews: interviews created by the service role and by the      *)
(* session of every user, for every user as the interviewer, and deleted, *)
(* while the ACTIVE and the PLEDGE user are activated and deactivated     *)

InterviewRows == [event_id : {NULL}, interviewer_id : {Val(k) : k \in UserIds},
                  candidate_id : {Val(3)}, overall_rating : {Val(4)},
                  recommendation : {Val("BID")}, is_complete : {TRUE}]

NextInterviews ==
    \/ \E s \in Sessions, new \in InterviewRows : InsertInterviews(s, new)
    \/ \E s \in Sessions, id \in 1..MaxRows : DeleteInterviews(s, id)
    \/ \E id \in {2, 4}, set \in ReadUserSets : UpdateUsers(ServiceRole, id, set)

SpecInterviews == Seeded /\ [][NextInterviews]_vars

\* the users row of the session uid, among the rows vis, is the interviewer
\* of r and has role ACTIVE or ADMIN
CallerIsMemberInterviewer(uid, vis, r) ==
    \E u \in vis : /\ SqlEq(u.supabase_id, Val(uid))
                   /\ u.role \in {"ACTIVE", "ADMIN"}
                   /\ r.interviewer_id = Val(u.id)

\* C10: an insert into interviews by an authenticated session succeeds only
\* when the caller's own users row has role ACTIVE or ADMIN and is the
\* interviewer (and the INSERT policy admits no other row, whichever rows of
\* users the session can see); with a PLEDGE or RUSHEE interviewer the
\* insert fails with insufficient privilege and leaves interviews unchanged.
C10_MembersCreateInterviews ==
    /\ [](\A k \in UserIds, vis \in SUBSET users, new \in InterviewRows :
            InterviewsInsertCheck(k, vis, new) => CallerIsMemberInterviewer(k, vis, new))
    /\ [][\A k \in UserIds :
            Ran("insert_interviews", Authenticated(k)) =>
                \A new \in InterviewRows :
                    InsertInterviews(Authenticated(k), new) =>
                        /\ last'.result = "ok" => CallerIsMemberInterviewer(k, users, new)
                        /\ RoleOfUser(new.interviewer_id) \in {"PLEDGE", "RUSHEE"} =>
                              /\ interviews' = interviews
                              /\ last'.result = "insufficient_privilege"]_vars

\* the session of the PLEDGE user has just been refused an insert while an
\* interview is stored
C10_Witness ==
    /\ last.op = "insert_interviews"
    /\ last.sess = Authenticated(4)
    /\ last.result = "insufficient_privilege"
    /\ interviews # {}

---------------------------------------------------------------------------
(* SpecFeedbackReads: public and private feedback of an ACTIVE and a      *)
(* PLEDGE author, stored by the service role and read by every user,      *)
(* while the ADMIN and the ACTIVE user are activated and deactivated      *)

ReadFeedback == [event_id : {NULL}, author_id : {Val(2), Val(4)}, candidate_id : {Val(3)},
                 rating : {Val(3)}, is_anonymous : {FALSE}, is_private : BOOLEAN]

NextFeedbackReads ==
    \/ \E new \in ReadFeedback : InsertFeedback(ServiceRole, new)
    \/ \E id \in 1..MaxRows, p \in BOOLEAN : UpdateFeedback(ServiceRole, id, [is_private |-> p])
    \/ \E id \in {1, 2}, set \in ReadUserSets : UpdateUsers(ServiceRole, id, set)

SpecFeedbackReads == Seeded /\ [][NextFeedbackReads]_vars

\* C11: a feedback row is readable by a caller exactly when the caller is
\* its author, or the caller is an ADMIN, or the row is not private and the
\* caller's role is ACTIVE or ADMIN.
C11_FeedbackVisibility ==
    \A k \in UserIds, f \in feedback :
        f \in FeedbackReadable(Authenticated(k))
            <=> \/ f.author_id = Val(k)
                \/ RoleOfUser(Val(k)) = "ADMIN"
                \/ ~f.is_private /\ RoleOfUser(Val(k)) \in {"ACTIVE", "ADMIN"}

---------------------------------------------------------------------------
(* SpecCascade: one row of every table (two of attendance) that          *)
(* references users 1, 2 and 3, stored by the service role; the three     *)
(* users are deleted                                                      *)

CascadeAttendance == [event_id : {Val(1)}, user_id : {Val(2), Val(3)},
                      rsvp_status : {NULL}, status : {"PRESENT"},
                      checked_in_at : {Val(1)}, checked_in_by : {Val(1)}]
CascadeVotes == [event_id : {Val(1)}, voter_id : {Val(2)},
                 candidate_id : {Val(3)}, vote_type : {"BID"}, vote_value : {NULL},
                 is_anonymous : {TRUE}, voting_round : {Val("Round 1")}]
CascadeFeedback == [event_id : {Val(1)}, author_id : {Val(2)},
                    candidate_id : {Val(3)}, rating : {NULL}, is_anonymous : {FALSE},
                    is_private : {FALSE}]
CascadeInterviews == [event_id : {Val(1)}, interviewer_id : {Val(2)},
                      candidate_id : {Val(3)}, overall_rating : {NULL},
                      recommendation : {NULL}, is_complete : {TRUE}]
CascadeDues == [user_id : {Val(3)}, amount : {Val(50)}, payment_type : {"SEMESTER"},
                payment_method : {NULL}, status : {"NOT_PAID"}, due_date : {Val(1)},
                paid_at : {NULL}, recorded_by : {Val(1)}]
CascadeSessions == {ServiceRole, Authenticated(1)}

NextCascade ==
    \/ \E new \in CascadeAttendance : InsertAttendance(ServiceRole, new)
    \/ \E new \in CascadeVotes : votes = {} /\ InsertVotes(ServiceRole, new)
    \/ \E new \in CascadeFeedback : feedback = {} /\ InsertFeedback(ServiceRole, new)
    \/ \E new \in CascadeInterviews : interviews = {} /\ InsertInterviews(ServiceRole, new)
    \/ \E new \in CascadeDues : dues_payments = {} /\ InsertDues(ServiceRole, new)
    \/ \E s \in CascadeSessions, id \in {1, 2, 3} : DeleteUsers(s, id)

SpecCascade == Seeded /\ [][NextCascade]_vars

\* the references to users of the rows of a table, by column
UserRefs(table, cols) == {r[c] : r \in table, c \in cols}
AllUserRefs ==
    UserRefs(events, {"created_by"})
        \cup UserRefs(attendance, {"user_id", "checked_in_by"})
        \cup UserRefs(votes, {"voter_id", "candidate_id"})
        \cup UserRefs(feedback, {"author_id", "candidate_id"})
        \cup UserRefs(interviews, {"interviewer_id", "candidate_id"})
        \cup UserRefs(dues_payments, {"user_id", "recorded_by"})

\* every row r of table that names id in column col, and is not deleted
\* with id as the owner named in column own, is kept with col set to NULL
KeptWithNull(table, after, col, own, id) ==
    \A r \in table :
        (Refs(r[col], id) /\ (own = "" \/ ~Refs(r[own], id)))
            => \E q \in after : q.id = r.id /\ IsNull(q[col])

---------------------------------------------------------------------------
(* SpecEventDelete: one attendance row, vote, feedback and interview,     *)
(* with and without an event, stored by the service role; events are      *)
(* deleted while time passes                                              *)

EventRefs == {NULL} \cup {Val(e) : e \in EventIds}
EventAttendance == [event_id : {Val(e) : e \in EventIds}, user_id : {Val(2)},
                    rsvp_status : {NULL}, status : {"PRESENT"},
                    checked_in_at : {NULL}, checked_in_by : {NULL}]
EventVotes == [event_id : EventRefs, voter_id : {Val(2)}, candidate_id : {Val(3)},
               vote_type : {"BID"}, vote_value : {Val(7)}, is_anonymous : {TRUE},
               voting_round : {Val("Round 1")}]
EventFeedback == [event_id : EventRefs, author_id : {Val(2)}, candidate_id : {Val(3)},
                  rating : {Val(4)}, is_anonymous : {FALSE}, is_private : {FALSE}]
EventInterviews == [event_id : EventRefs, interviewer_id : {Val(2)}, candidate_id : {Val(3)},
                    overall_rating : {Val(4)}, recommendation : {Val("BID")},
                    is_complete : {TRUE}]

NextEventDelete ==
    \/ \E new \in EventAttendance : attendance = {} /\ InsertAttendance(ServiceRole, new)
    \/ \E new \in EventVotes : votes = {} /\ InsertVotes(ServiceRole, new)
    \/ \E new \in EventFeedback : feedback = {} /\ InsertFeedback(ServiceRole, new)
    \/ \E new \in EventInterviews : interviews = {} /\ InsertInterviews(ServiceRole, new)
    \/ \E s \in CascadeSessions, id \in EventIds : DeleteEvents(s, id)
    \/ Tick

SpecEventDelete == Seeded /\ [][NextEventDelete]_vars

\* the rows of table with the event reference of the rows of event id set to NULL
EventNulled(table, id) ==
    {IF Refs(r.event_id, id) THEN [r EXCEPT !.event_id = NULL] ELSE r : r \in table}

\* the same, with updated_at of the changed rows set to the time of the deletion
EventNulledNow(table, id) ==
    {IF Refs(r.event_id, id) THEN [r EXCEPT !.event_id = NULL, !.updated_at = now] ELSE r :
        r \in table}

\* the service role deletes the stored event id in this step
DeletesEvent(id) ==
    Ran("delete_events", ServiceRole) /\ id \in Ids(events) /\ DeleteEvents(ServiceRole, id)

---------------------------------------------------------------------------
(* SpecDeactivate: a database with a row in every table; users 1, 2 and 3 *)
(* are deactivated and reactivated while time passes                      *)

Stored(rows) == {[id |-> 1, updated_at |-> 1] @@ r : r \in rows}

Populated ==
    /\ users = SeededUsers
    /\ events = SeededEvents
    /\ attendance = Stored({r \in CascadeAttendance : r.user_id = Val(2)})
    /\ votes = Stored(CascadeVotes)
    /\ feedback = Stored(CascadeFeedback)
    /\ interviews = Stored(CascadeInterviews)
    /\ dues_payments = Stored(CascadeDues)
    /\ now = 1
    /\ schema = AllMigrated
    /\ calls = [c \in CallIds |-> IdleCall]
    /\ last = NoOp

NextDeactivate ==
    \/ \E s \in CascadeSessions, id \in {1, 2, 3}, set \in ReadUserSets : UpdateUsers(s, id, set)
    \/ Tick

SpecDeactivate == Populated /\ [][NextDeactivate]_vars

\* C14: deactivating a user (UPDATE users SET is_active = false) changes
\* only that user's is_active, to false, and updated_at, to the time of the
\* update: the user row still exists and the rows of events, attendance,
\* votes, feedback, interviews and dues_payments are unchanged.
C14_DeactivateFrame ==
    [][\A id \in {1, 2, 3} :
         (id \in Ids(users) /\ UpdateUsers(ServiceRole, id, [is_active |-> FALSE]))
         => /\ last'.result = "ok"
            /\ users' = (users \ {RowById(users, id)})
                           \cup {[RowById(users, id) EXCEPT !.is_active = FALSE,
                                                            !.updated_at = now]}
            /\ UNCHANGED <<events, attendance, votes, feedback, interviews, dues_payments>>]_vars

\* user 2, who holds an attendance row, a vote, a feedback and an interview,
\* has been deactivated at time 2 and all those rows are stored
C14_Witness ==
    /\ last.op = "update_users" /\ last.result = "ok"
    /\ \E u \in users : u.id = 2 /\ ~u.is_active /\ u.updated_at = 2
    /\ attendance # {} /\ votes # {} /\ feedback # {} /\ interviews # {}
    /\ dues_payments # {}

\* the users row of the session uid is deactivated
Inactive(uid) == \E u \in users : SqlEq(u.supabase_id, Val(uid)) /\ ~u.is_active

---------------------------------------------------------------------------
(* SpecTimestamps: a database with a row in every table; the service role *)
(* updates a row of each table, supplying an updated_at of its own, and   *)
(* deletes user 1 and the event, while time passes                        *)

SuppliedUpdatedAt == {0, MaxNow + 1}

TouchUsers ==
    \E t \in SuppliedUpdatedAt :
        UpdateUsers(ServiceRole, 2, [is_active |-> TRUE, updated_at |-> t])

TouchEvents ==
    \E t \in SuppliedUpdatedAt :
        UpdateEvents(ServiceRole, 1, [is_active |-> TRUE, updated_at |-> t])

TouchAttendance ==
    \E t \in SuppliedUpdatedAt :
        UpdateAttendance(ServiceRole, 1, [status |-> "PRESENT", updated_at |-> t])

TouchVotes ==
    \E t \in SuppliedUpdatedAt :
        UpdateVotes(ServiceRole, 1, [vote_type |-> "BID", updated_at |-> t])

TouchFeedback ==
    \E t \in SuppliedUpdatedAt :
        UpdateFeedback(ServiceRole, 1, [is_private |-> FALSE, updated_at |-> t])

TouchInterviews ==
    \E t \in SuppliedUpdatedAt :
        UpdateInterviews(ServiceRole, 1, [is_complete |-> TRUE, updated_at |-> t])

TouchDues ==
    \E t \in SuppliedUpdatedAt :
        UpdateDues(ServiceRole, 1, [status |-> "NOT_PAID", updated_at |-> t])

NextTimestamps ==
    \/ TouchUsers
    \/ TouchEvents
    \/ TouchAttendance
    \/ TouchVotes
    \/ TouchFeedback
    \/ TouchInterviews
    \/ TouchDues
    \/ DeleteUsers(ServiceRole, 1)
    \/ DeleteEvents(ServiceRole, 1)
    \/ Tick

SpecTimestamps == Populated /\ [][NextTimestamps]_vars

\* every row of the table that the step changed holds the time of the step,
\* which is not earlier than the time the row held
Refreshed(table, after) ==
    \A r \in table, q \in after :
        (q.id = r.id /\ q # r) => (q.updated_at = now /\ q.updated_at >= r.updated_at)

\* the step is a successful update of row id: the row holds the time of the
\* step, which is not earlier than the time the row held
RefreshedBy(ran, table, after, id) ==
    (ran /\ last'.result = "ok") =>
        /\ \E r \in table : r.id = id
        /\ \A r \in table, q \in after :
              (r.id = id /\ q.id = id) => (q.updated_at = now /\ q.updated_at >= r.updated_at)

\* C16: every update of a row of the seven tables, the update of an
\* ON DELETE SET NULL action included, sets the row's updated_at to the time
\* of the update, whatever updated_at the statement supplied; time does not
\* go back, so updated_at does not decrease from one update to the next.
C16_UpdatedAtRefreshed ==
    [][/\ now' >= now
       /\ Refreshed(users, users') /\ Refreshed(events, events')
       /\ Refreshed(attendance, attendance') /\ Refreshed(votes, votes')
       /\ Refreshed(feedback, feedback') /\ Refreshed(interviews, interviews')
       /\ Refreshed(dues_payments, dues_payments')
       /\ RefreshedBy(TouchUsers, users, users', 2)
       /\ RefreshedBy(TouchEvents, events, events', 1)
       /\ RefreshedBy(TouchAttendance, attendance, attendance', 1)
       /\ RefreshedBy(TouchVotes, votes, votes', 1)
       /\ RefreshedBy(TouchFeedback, feedback, feedback', 1)
       /\ RefreshedBy(TouchInterviews, interviews, interviews', 1)
       /\ RefreshedBy(TouchDues, dues_payments, dues_payments', 1)]_vars

\* at time 2 the event has been deleted after user 1: the vote lost its
\* event and the dues payment its recorder, both at time 2, and a statement
\* that supplied another updated_at has refreshed user 2
C16_Witness ==
    /\ now = 2
    /\ \E v \in votes : IsNull(v.event_id) /\ v.updated_at = 2
    /\ \E d \in dues_payments : IsNull(d.recorded_by) /\ d.updated_at = 2
    /\ \E u \in users : u.id = 2 /\ u.updated_at = 2

---------------------------------------------------------------------------
(* SpecEvents: the seeded users and no event; the service role and the    *)
(* session of user 1 create, reschedule and delete an event, while time   *)
(* passes                                                                 *)

Times == 1..MaxNow

NewEvents ==
    [event_type : {"DINNER", "BRUNCH"}, start_time : Times,
     end_time : {NULL} \cup {Val(t) : t \in Times},
     created_by : {Val(1)}, is_active : {TRUE}]

EventSets ==
    [start_time : Times] \cup [end_time : {NULL} \cup {Val(t) : t \in Times}]
        \cup [is_active : BOOLEAN]

NoEvents ==
    /\ users = SeededUsers
    /\ events = {} /\ attendance = {}
    /\ votes = {} /\ feedback = {} /\ interviews = {}
    /\ dues_payments = {}
    /\ now = 1
    /\ schema = AllMigrated
    /\ calls = [c \in CallIds |-> IdleCall]
    /\ last = NoOp

NextEvents ==
    \/ \E s \in CascadeSessions, new \in NewEvents : InsertEvents(s, new)
    \/ \E s \in CascadeSessions, set \in EventSets : UpdateEvents(s, 1, set)
    \/ \E s \in CascadeSessions : DeleteEvents(s, 1)
    \/ Tick

SpecEvents == NoEvents /\ [][NextEvents]_vars

\* C17: an event's end_time, when it has one, is not earlier than its
\* start_time.
C17_EndNotBeforeStart ==
    \A e \in events : IsNull(e.end_time) \/ Get(e.end_time) >= e.start_time

---------------------------------------------------------------------------
(* SpecStages: the seeded users; the service role and the session of user *)
(* 1 set the candidate_stage and the role of users 2 and 3                *)

StageSets ==
    [candidate_stage : {NULL, Val("INITIAL"), Val("BID_ACCEPTED"), Val("PLEDGED")}]
        \cup [role : Roles]

NextStages ==
    \E s \in CascadeSessions, id \in {2, 3}, set \in StageSets : UpdateUsers(s, id, set)

SpecStages == Seeded /\ [][NextStages]_vars

\* C18: a user whose candidate_stage is set has the role RUSHEE.
C18_StageOnlyForRushee ==
    \A u \in users : ~IsNull(u.candidate_stage) => u.role = "RUSHEE"

\* the edges of the progression; a stage is first set to INITIAL
StageEdges ==
    {<<NULL, Val("INITIAL")>>,
     <<Val("INITIAL"), Val("FIRST_ROUND")>>,
     <<Val("FIRST_ROUND"), Val("SECOND_ROUND")>>,
     <<Val("SECOND_ROUND"), Val("THIRD_ROUND")>>,
     <<Val("THIRD_ROUND"), Val("BID_EXTENDED")>>,
     <<Val("THIRD_ROUND"), Val("NO_BID")>>,
     <<Val("THIRD_ROUND"), Val("DROPPED")>>,
     <<Val("BID_EXTENDED"), Val("BID_ACCEPTED")>>,
     <<Val("BID_EXTENDED"), Val("BID_DECLINED")>>}

\* C26: the candidate_stage of a RUSHEE changes only along an edge of the
\* progression (so a stage of BID_ACCEPTED, BID_DECLINED, NO_BID or DROPPED,
\* which no edge leaves, never changes).
C26_StageFollowsEdges ==
    [][\A u \in users, v \in users' :
          (u.id = v.id /\ u.role = "RUSHEE" /\ v.role = "RUSHEE"
              /\ u.candidate_stage # v.candidate_stage)
          => <<u.candidate_stage, v.candidate_stage>> \in StageEdges]_vars

---------------------------------------------------------------------------
(* SpecCheckIn: the seeded users and events; the service role records the *)
(* attendance of users 2 and 3, checked in by user 1 or by nobody,        *)
(* updates the status and the check-in columns, and deletes user 1        *)

CheckIns ==
    [event_id : {Val(1)}, user_id : {Val(2), Val(3)}, rsvp_status : {NULL},
     status : {"PENDING", "PRESENT"},
     checked_in_at : {NULL, Val(1)}, checked_in_by : {NULL, Val(1)}]

CheckInSets ==
    [status : {"PRESENT", "ABSENT"}]
        \cup [checked_in_at : {Val(1)}, checked_in_by : {Val(1)}]

NextCheckIn ==
    \/ \E new \in CheckIns : InsertAttendance(ServiceRole, new)
    \/ \E id \in 1..MaxRows, set \in CheckInSets : UpdateAttendance(ServiceRole, id, set)
    \/ \E s \in CascadeSessions : DeleteUsers(s, 1)

SpecCheckIn == Seeded /\ [][NextCheckIn]_vars

\* C19: an attendance row has checked_in_at set if and only if it has
\* checked_in_by set.
C19_CheckInPaired ==
    \A a \in attendance : IsNull(a.checked_in_at) <=> IsNull(a.checked_in_by)

---------------------------------------------------------------------------
(* SpecDues: the seeded users; the service role and the session of user 1 *)
(* record dues payments of user 3 and update their status and paid_at     *)

NewDues ==
    [user_id : {Val(3)}, amount : {Val(-1), Val(0), Val(50)}, payment_type : {"SEMESTER"},
     payment_method : {NULL}, status : {"NOT_PAID", "PAID"}, due_date : {Val(1)},
     paid_at : {NULL, Val(1)}, recorded_by : {Val(1)}]

DuesSets ==
    [status : {"NOT_PAID", "PAID", "REFUNDED"}] \cup [paid_at : {NULL, Val(1)}]
        \cup [amount : {Val(-1), Val(0)}]

NextDues ==
    \/ \E s \in CascadeSessions, new \in NewDues : InsertDues(s, new)
    \/ \E s \in CascadeSessions, id \in 1..MaxRows, set \in DuesSets : UpdateDues(s, id, set)

SpecDues == Seeded /\ [][NextDues]_vars

\* C20: a dues payment whose status is PAID has paid_at set.
C20_PaidHasPaidAt ==
    \A d \in dues_payments : d.status = "PAID" => ~IsNull(d.paid_at)

\* C21: every stored dues payment has an amount greater than zero.
C21_AmountPositive ==
    \A d \in dues_payments : ~IsNull(d.amount) /\ Get(d.amount) > 0

---------------------------------------------------------------------------
(* SpecMigrations: an empty database; the eight migration scripts are run *)
(* in any order, any number of times                                      *)

Unmigrated ==
    /\ users = {} /\ events = {} /\ attendance = {}
    /\ votes = {} /\ feedback = {} /\ interviews = {}
    /\ dues_payments = {}
    /\ now = 1
    /\ schema = {}
    /\ calls = [c \in CallIds |-> IdleCall]
    /\ last = NoOp

NextMigrations == \E m \in Migrations, atomic \in BOOLEAN : Migration(m, atomic)

SpecMigrations == Unmigrated /\ [][NextMigrations]_vars

\* the Dependencies column of the table of migration files
ListedDependencies(m) ==
    IF m = 1 THEN {}
    ELSE IF m \in {2, 6, 8} THEN {"users"}
    ELSE {"users", "events"}

\* the schema after the migrations 001 to m have been applied
AppliedUpTo(m) == UNION {Creates(k) : k \in 1..m}

\* C22: when the migrations are applied in the order 001 to 008, every table
\* and function a migration names exists when it runs and it succeeds; a
\* migration run while one of its listed dependencies is missing fails and
\* changes nothing.
C22_MigrationOrder ==
    [][\A m \in Migrations, atomic \in BOOLEAN :
          Migration(m, atomic) =>
              /\ schema = AppliedUpTo(m - 1) =>
                    /\ References(m) \subseteq schema
                    /\ last'.result = "ok"
                    /\ schema' = AppliedUpTo(m)
              /\ ~(ListedDependencies(m) \subseteq schema) =>
                    /\ last'.result # "ok"
                    /\ schema' = schema
                    /\ UNCHANGED tables]_vars

\* the eight migrations have been applied, 008 the last
C22_Witness ==
    /\ schema = AllMigrated
    /\ last.op = "migration_8"
    /\ last.result = "ok"

---------------------------------------------------------------------------
(* SpecHealth: the process serves GET /api/health at any moment, between  *)
(* the steps of the submitBallot calls in flight and as time passes       *)

HealthBallots == {d \in BallotData : d.vote_type = "BID" /\ d.voting_round # Undefined}

NextHealth ==
    \/ GetHealth
    \/ \E c \in CallIds, d \in HealthBallots : SubmitBallot(c, ReqUser(2), d)
    \/ \E c \in CallIds : BallotFind(c)
    \/ \E c \in CallIds : BallotCreate(c)
    \/ Tick

SpecHealth == Seeded /\ [][NextHealth]_vars

\* C23: the body that answers a GET /api/health request has the status
\* "healthy".
C23_HealthIsHealthy ==
    last.op = "GET /api/health" => last.result.status = "healthy"

---------------------------------------------------------------------------
(* SpecEventAdmin: the seeded users and events; the service role and the  *)
(* sessions of the ADMIN and of the ACTIVE user create, update and delete *)
(* events, while the ADMIN is deactivated, reactivated and changes role   *)

EventSessions == {ServiceRole, Authenticated(1), Authenticated(2)}
ManagedEvents == {e \in NewEvents : e.event_type = "DINNER" /\ IsNull(e.end_time)}
ManagedSets == [is_active : BOOLEAN]

NextEventAdmin ==
    \/ \E s \in EventSessions, new \in ManagedEvents : InsertEvents(s, new)
    \/ \E s \in EventSessions, id \in EventIds, set \in ManagedSets : UpdateEvents(s, id, set)
    \/ \E s \in EventSessions, id \in EventIds : DeleteEvents(s, id)
    \/ \E set \in ReadUserSets \cup ReadRoleSets : UpdateUsers(ServiceRole, 1, set)

SpecEventAdmin == Seeded /\ [][NextEventAdmin]_vars

\* the users row of the session uid, among the rows vis, is an ADMIN with
\* is_active = true
CallerIsActiveAdmin(uid, vis) ==
    \E u \in vis : u.supabase_id = Val(uid) /\ u.role = "ADMIN" /\ u.is_active = TRUE

\* the statement of session s on events succeeded only for an active ADMIN;
\* for any other caller it did not succeed and left events unchanged
AdminOrRefused(s) ==
    /\ last'.result = "ok" => CallerIsActiveAdmin(s.uid, users)
    /\ ~CallerIsActiveAdmin(s.uid, users) => (last'.result # "ok" /\ events' = events)

\* C24: the policy on events admits a caller only when the caller's users
\* row is an ADMIN with is_active = true, whichever rows of users the session
\* can see; an insert, update or delete of an event by an authenticated
\* session of any other caller does not succeed and leaves events unchanged.
C24_OnlyAdminsManageEvents ==
    /\ [](\A k \in UserIds, vis \in SUBSET users, e \in events :
            EventsManageUsing(k, vis, e) => CallerIsActiveAdmin(k, vis))
    /\ [][\A s \in EventSessions \ {ServiceRole} :
            /\ \A new \in ManagedEvents : InsertEvents(s, new) => AdminOrRefused(s)
            /\ \A id \in EventIds, set \in ManagedSets :
                  UpdateEvents(s, id, set) => AdminOrRefused(s)
            /\ \A id \in EventIds : DeleteEvents(s, id) => AdminOrRefused(s)]_vars

\* the session of the ACTIVE user has just been refused the insert of an
\* event, the table having room for it
C24_Witness ==
    /\ last.op = "insert_events"
    /\ last.sess = Authenticated(2)
    /\ last.result = "insufficient_privilege"
    /\ HasRoom(events, MaxEvents)

---------------------------------------------------------------------------
(* SpecOwnRows: the seeded users and events; the service role and the     *)
(* sessions of the ACTIVE user and of the RUSHEE store and update         *)
(* attendance rows and dues payments of these two users                   *)

OwnRowSessions == {ServiceRole, Authenticated(2), Authenticated(3)}
OwnAttendance == {a \in CheckIns : a.status = "PENDING" /\ IsNull(a.checked_in_at)
                                      /\ IsNull(a.checked_in_by)}
OwnDues == [user_id : {Val(2), Val(3)}, amount : {Val(50)}, payment_type : {"SEMESTER"},
            payment_method : {NULL}, status : {"NOT_PAID"}, due_date : {Val(1)},
            paid_at : {NULL}, recorded_by : {Val(1)}]

NextOwnRows ==
    \/ \E s \in OwnRowSessions, new \in OwnAttendance : InsertAttendance(s, new)
    \/ \E s \in OwnRowSessions, id \in 1..MaxRows :
          UpdateAttendance(s, id, [rsvp_status |-> Val("GOING")])
    \/ \E s \in OwnRowSessions, new \in OwnDues : InsertDues(s, new)
    \/ \E s \in OwnRowSessions, id \in 1..MaxRows :
          UpdateDues(s, id, [status |-> "WAIVED"])

SpecOwnRows == Seeded /\ [][NextOwnRows]_vars

\* the statement did not succeed and changed neither table
Denied ==
    /\ last'.result # "ok"
    /\ attendance' = attendance
    /\ dues_payments' = dues_payments

\* C25: a caller who is not an active ADMIN reads exactly the attendance rows
\* and the dues payments whose user is the caller, and a statement of such a
\* caller that inserts or updates a row of either table does not succeed.
C25_OwnRowsReadOnly ==
    /\ [](\A k \in UserIds :
            ~CallerIsActiveAdmin(k, users) =>
                /\ AttendanceReadable(Authenticated(k)) = {a \in attendance : a.user_id = Val(k)}
                /\ DuesReadable(Authenticated(k)) = {d \in dues_payments : d.user_id = Val(k)})
    /\ [][\A s \in OwnRowSessions \ {ServiceRole} :
            ~CallerIsActiveAdmin(s.uid, users) =>
                /\ \A new \in OwnAttendance : InsertAttendance(s, new) => Denied
                /\ \A id \in 1..MaxRows :
                      UpdateAttendance(s, id, [rsvp_status |-> Val("GOING")]) => Denied
                /\ \A new \in OwnDues : InsertDues(s, new) => Denied
                /\ \A id \in 1..MaxRows : UpdateDues(s, id, [status |-> "WAIVED"]) => Denied]_vars

---------------------------------------------------------------------------
(* SpecNoDelete: a database with a row in every table; the sessions of    *)
(* the ADMIN and of the ACTIVE user, who is the voter and the author,     *)
(* delete the vote and the feedback, the service role deletes users and  *)
(* the event and deactivates and reactivates the ADMIN                    *)

DeleteSessions == {Authenticated(1), Authenticated(2)}

NextNoDelete ==
    \/ \E s \in DeleteSessions, id \in 1..MaxVotes : DeleteVotes(s, id)
    \/ \E s \in DeleteSessions, id \in 1..MaxRows : DeleteFeedback(s, id)
    \/ \E id \in {1, 2, 3} : DeleteUsers(ServiceRole, id)
    \/ \E id \in EventIds : DeleteEvents(ServiceRole, id)
    \/ \E set \in ReadUserSets : UpdateUsers(ServiceRole, 1, set)

SpecNoDelete == Populated /\ [][NextNoDelete]_vars

\* row r of the table is gone after the step
Gone(r, after) == \A q \in after : q.id # r.id

\* the user a reference names is deleted by the step
Deleted(ref) == Get(ref) \in Ids(users) /\ Get(ref) \notin Ids(users')

---------------------------------------------------------------------------
(* SpecVoteOwner: the service role and the session of the ACTIVE user     *)
(* cast ballots in the name of the ADMIN and of the ACTIVE user, change   *)
(* them and reassign them                                                 *)

OwnerVotes == ReadVotes
OwnerSets == [voter_id : {Val(1), Val(2)}] \cup [vote_type : {"BID", "NO_BID"}]
OwnerSessions == {ServiceRole, Authenticated(2)}

NextVoteOwner ==
    \/ \E s \in OwnerSessions, new \in OwnerVotes : InsertVotes(s, new)
    \/ \E s \in OwnerSessions, id \in 1..MaxVotes, set \in OwnerSets : UpdateVotes(s, id, set)
    \/ \E id \in 1..MaxVotes : DeleteVotes(ServiceRole, id)

SpecVoteOwner == Seeded /\ [][NextVoteOwner]_vars

\* the users row of the session uid, among the rows vis, is the voter of r
CallerIsVoter(uid, vis, r) ==
    \E u \in vis : u.supabase_id = Val(uid) /\ r.voter_id = Val(u.id)

\* C29: the INSERT policy of votes admits a row only when its voter_id is
\* the caller's own users row, and the UPDATE policy admits an update only
\* when the voter_id of the row before and after it is the caller's own
\* users row, whichever rows of users the session can see; an insert or
\* update of a vote by an authenticated session succeeds only so, and
\* otherwise leaves votes unchanged.
C29_VotesAttributedToCaller ==
    /\ [](\A k \in UserIds, vis \in SUBSET users :
            /\ \A new \in OwnerVotes :
                  VotesInsertCheck(k, vis, new) => CallerIsVoter(k, vis, new)
            /\ \A v \in votes, set \in OwnerSets :
                  (VotesUpdateUsing(k, vis, v) /\ VotesUpdateUsing(k, vis, Patch(v, set)))
                  => (CallerIsVoter(k, vis, v) /\ CallerIsVoter(k, vis, Patch(v, set))))
    /\ [][\A s \in OwnerSessions \ {ServiceRole} :
            /\ \A new \in OwnerVotes :
                  InsertVotes(s, new) =>
                      IF CallerIsVoter(s.uid, users, new)
                      THEN TRUE
                      ELSE votes' = votes /\ last'.result = "insufficient_privilege"
            /\ \A id \in Ids(votes), set \in OwnerSets :
                  UpdateVotes(s, id, set) =>
                      IF /\ CallerIsVoter(s.uid, users, RowById(votes, id))
                         /\ CallerIsVoter(s.uid, users, Patch(RowById(votes, id), set))
                      THEN TRUE
                      ELSE votes' = votes /\ last'.result # "ok"]_vars

\* the session of user 2 has just been refused an insert while a vote of
\* user 1 and none of user 2 is stored
C29_Witness ==
    /\ last.op = "insert_votes"
    /\ last.sess = Authenticated(2)
    /\ last.result = "insufficient_privilege"
    /\ \E v \in votes : v.voter_id = Val(1)
    /\ \A v \in votes : v.voter_id # Val(2)

---------------------------------------------------------------------------
(* SpecStageMigration: the migrations 001 to 007 are applied and users 1, *)
(* 2 and 3 are stored; migration 008 is run, once or again; the service   *)
(* role signs up user 4 and, once the column exists, sets stages          *)

BeforeStages ==
    /\ users = {UserRow(k) : k \in 1..3}
    /\ events = {} /\ attendance = {}
    /\ votes = {} /\ feedback = {} /\ interviews = {}
    /\ dues_payments = {}
    /\ now = 1
    /\ schema = AllMigrated \ {StageColumn}
    /\ calls = [c \in CallIds |-> IdleCall]
    /\ last = NoOp

\* the columns an INSERT names: the role and the stage are given or left out
SignUps ==
    LET base == [supabase_id : {Val(4)}, email : {Val(EmailOf(4))}]
    IN base
       \cup {b @@ [role |-> r] : b \in base, r \in {"RUSHEE", "ACTIVE"}}
       \cup {b @@ [candidate_stage |-> Val("FIRST_ROUND")] : b \in base}

SuppliesStage(new) == "candidate_stage" \in DOMAIN new

StagesSet == [candidate_stage : {NULL, Val("FIRST_ROUND")}] \cup [role : {"RUSHEE", "PLEDGE"}]

NextStageMigration ==
    \/ \E atomic \in BOOLEAN : Migration(8, atomic)
    \/ \E new \in SignUps :
          /\ SuppliesStage(new) => StageColumn \in schema
          /\ InsertUsers(ServiceRole, WithUsersDefaults(new))
    \/ \E id \in {3, 4}, set \in StagesSet :
          /\ StageColumn \in schema
          /\ UpdateUsers(ServiceRole, id, set)
    \/ DeleteUsers(ServiceRole, 4)
    \/ Tick

SpecStageMigration == BeforeStages /\ [][NextStageMigration]_vars

\* the row of users that migration 008 has to set to INITIAL
ToBackfill(u) == u.role = "RUSHEE" /\ IsNull(u.candidate_stage)

\* C30: a run of migration 008 changes only users whose role is RUSHEE and
\* whose candidate_stage is null, and changes them by setting the stage to
\* INITIAL (with the audit timestamp); when it succeeds it does so for every
\* such user; a user inserted after it has the candidate_stage the INSERT
\* supplies, and a null one when it supplies none.
C30_BackfillExact ==
    [][/\ \A atomic \in BOOLEAN :
            Migration(8, atomic) =>
                /\ Ids(users') = Ids(users)
                /\ \A u \in users, v \in users' :
                      v.id = u.id =>
                          /\ v # u => /\ ToBackfill(u)
                                      /\ v = [u EXCEPT !.candidate_stage = Val("INITIAL"),
                                                       !.updated_at = now]
                          /\ (last'.result = "ok" /\ ToBackfill(u))
                                 => v.candidate_stage = Val("INITIAL")
       /\ \A new \in SignUps :
            (/\ StageColumn \in schema
             /\ InsertUsers(ServiceRole, WithUsersDefaults(new))
             /\ last'.result = "ok")
            => \E v \in users' \ users :
                  v.candidate_stage = IF SuppliesStage(new) THEN new.candidate_stage ELSE NULL]_vars

\* after migration 008 set the stage of user 3, a RUSHEE was signed up
\* without a stage: the new RUSHEE has none
C30_Witness ==
    /\ StageColumn \in schema
    /\ last.op = "insert_users"
    /\ last.result = "ok"
    /\ \E u \in users : u.id = 3 /\ u.role = "RUSHEE" /\ u.candidate_stage = Val("INITIAL")
    /\ \E u \in users : u.id = 4 /\ u.role = "RUSHEE" /\ IsNull(u.candidate_stage)

=============================================================================
